---- MODULE Spec2Model ----
(***************************************************************************)
(* Progressive discovery and operation dispatch of the SAP OData MCP       *)
(* server: HierarchicalSAPToolRegistry (discover / describe / execute)     *)
(* over an in-memory catalog, the SAPClient transport boundary, and the    *)
(* key formatting and payload cleaning the dispatcher performs.            *)
(***************************************************************************)
EXTENDS Integers, Sequences, FiniteSets, TLC

VARIABLES
    discoveredServices,  \* the catalog handed to the registry constructor
    serviceCategories,   \* Map service id -> category list (categorizeServices)
    userToken,           \* HierarchicalSAPToolRegistry.userToken
    currentUserToken,    \* SAPClient.currentUserToken
    request,             \* the tool call being answered, NoRequest when idle
    response,            \* what the handler returned for `request`
    transportCalls,      \* SAPClient calls issued while handling `request`
    usedShortNames,      \* SAPToolRegistry.usedShortNames
    toolNameMapping,     \* SAPToolRegistry.toolNameMapping: short name -> long form
    allocations,         \* the generateShortToolName calls made so far and their results
    suffixLoop,          \* the locals of a generateShortToolName call inside its while loop
    sessions,            \* caller -> the MCPServer createMCPServer built for it
    servers,             \* MCPServer -> its registry's userToken and its client's currentUserToken
    sessionCalls,        \* the SAPClient calls issued so far: caller and token
    inFlight             \* caller -> its execute calls waiting for the transport

vars == <<discoveredServices, serviceCategories, userToken, currentUserToken,
          request, response, transportCalls, usedShortNames, toolNameMapping, allocations,
          suffixLoop, sessions, servers, sessionCalls, inFlight>>

\* the state of the hierarchical registry and its client
registryVars == <<discoveredServices, serviceCategories, userToken, currentUserToken,
                  request, response, transportCalls>>

\* the state of the tool-name allocator
allocatorVars == <<usedShortNames, toolNameMapping, allocations, suffixLoop>>

\* the servers of the callers
sessionVars == <<sessions, servers, sessionCalls, inFlight>>

-----------------------------------------------------------------------------
(* Bounds of the model *)

\* largest number of fields in the `parameters` object of an execute call
MaxFields == 2

\* largest number of optional query arguments supplied to an execute call
MaxOptions == 2

\* largest number of generateShortToolName calls on one allocator
MaxAllocations == 3

\* execute calls one caller has waiting for the transport at a time
MaxInFlight == 2

-----------------------------------------------------------------------------
(* JavaScript values *)

JsString(str) == [t |-> "string", s |-> str, n |-> 0]

JsNumber(num) == [t |-> "number", s |-> "", n |-> num]

JsBoolean(b) == [t |-> "boolean", s |-> "", n |-> IF b THEN 1 ELSE 0]

Null == [t |-> "null", s |-> "", n |-> 0]

Undefined == [t |-> "undefined", s |-> "", n |-> 0]

\* ToBoolean: what `if (v)` and `v || d` test
Truthy(v) ==
    CASE v.t = "string" -> v.s # ""
      [] v.t = "number" -> v.n # 0
      [] v.t = "boolean" -> v.n = 1
      [] OTHER -> FALSE

Digit == <<"0", "1", "2", "3", "4", "5", "6", "7", "8", "9">>

RECURSIVE NatToString(_)
NatToString(num) ==
    IF num < 10 THEN Digit[num + 1]
    ELSE NatToString(num \div 10) \o Digit[(num % 10) + 1]

\* String(value)
String(v) ==
    CASE v.t = "string" -> v.s
      [] v.t = "number" -> IF v.n < 0 THEN "-" \o NatToString(-v.n) ELSE NatToString(v.n)
      [] v.t = "boolean" -> IF v.n = 1 THEN "true" ELSE "false"
      [] v.t = "null" -> "null"
      [] OTHER -> "undefined"

-----------------------------------------------------------------------------
(* Strings *)

UpperToLower ==
    [A |-> "a", B |-> "b", C |-> "c", D |-> "d", E |-> "e", F |-> "f", G |-> "g",
     H |-> "h", I |-> "i", J |-> "j", K |-> "k", L |-> "l", M |-> "m", N |-> "n",
     O |-> "o", P |-> "p", Q |-> "q", R |-> "r", S |-> "s", T |-> "t", U |-> "u",
     V |-> "v", W |-> "w", X |-> "x", Y |-> "y", Z |-> "z"]

RECURSIVE ToLowerCase(_)
ToLowerCase(str) ==
    IF str = "" THEN ""
    ELSE LET c == SubSeq(str, 1, 1)
         IN (IF c \in DOMAIN UpperToLower THEN UpperToLower[c] ELSE c)
                \o ToLowerCase(SubSeq(str, 2, Len(str)))

\* String.prototype.includes
Includes(str, q) ==
    \E i \in 0..(Len(str) - Len(q)) : SubSeq(str, i + 1, i + Len(q)) = q

\* str.replace(/'/g, "''")
RECURSIVE ReplaceQuotes(_)
ReplaceQuotes(str) ==
    IF str = "" THEN ""
    ELSE LET c == SubSeq(str, 1, 1)
         IN (IF c = "'" THEN "''" ELSE c) \o ReplaceQuotes(SubSeq(str, 2, Len(str)))

\* Array.prototype.join
RECURSIVE Join(_, _)
Join(strs, sep) ==
    IF strs = <<>> THEN ""
    ELSE IF Len(strs) = 1 THEN strs[1]
    ELSE strs[1] \o sep \o Join(Tail(strs), sep)

\* Array.prototype.includes
Contains(seq, x) == \E i \in 1..Len(seq) : seq[i] = x

\* Array.prototype.find, given the elements that satisfy the test: the first
\* of them, as a sequence of length 0 (undefined) or 1
FirstOf(hits) == IF hits = <<>> THEN <<>> ELSE <<Head(hits)>>

-----------------------------------------------------------------------------
(* Schema model: ODataService, ServiceMetadata, EntityType, Property *)

Property(name, type) == [name |-> name, type |-> type]

EntityType(name, entitySet, properties, keys, creatable, updatable, deletable) ==
    [name |-> name, entitySet |-> entitySet, properties |-> properties, keys |-> keys,
     creatable |-> creatable, updatable |-> updatable, deletable |-> deletable]

\* metadata: a sequence of length 1 holding the entity-type list, <<>> for null
ODataService(id, title, description, url, metadata) ==
    [id |-> id, title |-> title, description |-> description, url |-> url,
     metadata |-> metadata]

SalesOrderHeader ==
    EntityType("SalesOrderHeader", "SalesOrderHeaderSet",
               <<Property("Id", "Edm.String"), Property("Note", "Edm.String")>>,
               <<"Id">>, FALSE, TRUE, TRUE)

\* the property list orders the key properties differently from the key list
OrderItem ==
    EntityType("OrderItem", "OrderItemSet",
               <<Property("Pos", "Edm.Int32"), Property("Id", "Edm.String"),
                 Property("Note", "Edm.String")>>,
               <<"Id", "Pos">>, TRUE, TRUE, FALSE)

Employee ==
    EntityType("Employee", "EmployeeSet",
               <<Property("Id", "Edm.Guid"), Property("Note", "Edm.String")>>,
               <<"Id">>, TRUE, FALSE, TRUE)

SalesService ==
    ODataService("SALES_SRV", "Sales Orders", "OData service SALES_SRV",
                 "/sap/opu/odata/sap/SALES_SRV/", <<<<SalesOrderHeader, OrderItem>>>>)

EmployeeService ==
    ODataService("ZHR_EMPLOYEE_CDS", "Employee Records", "Personnel master data",
                 "/sap/opu/odata/sap/ZHR_EMPLOYEE_CDS/", <<<<Employee>>>>)

\* metadata resolution failed for this service: metadata is null
MiscService ==
    ODataService("API_MISC", "misc Things", "OData service API_MISC",
                 "/sap/opu/odata/sap/API_MISC/", <<>>)

Catalogs ==
    { <<>>, <<MiscService>>, <<SalesService, EmployeeService, MiscService>> }

\* a reading of the metadata that gives an unresolved service one entity
EntityTypesOfUnresolved(service) ==
    IF service.metadata = <<>> THEN <<EntityType("Nope", "NopeSet", <<>>, <<>>, TRUE, TRUE, TRUE)>>
    ELSE service.metadata[1]

\* service.metadata?.entityTypes, with [] for a null metadata
EntityTypesOf(service) ==
    IF service.metadata = <<>> THEN <<>> ELSE service.metadata[1]

-----------------------------------------------------------------------------
(* JavaScript objects: functions from the names of their own fields *)

EmptyObject == [k \in {} |-> Undefined]

\* obj[k], undefined when obj has no field k
Get(obj, k) == IF k \in DOMAIN obj THEN obj[k] ELSE Undefined

\* every object with at most `max` of the fields `names`, valued in `values`
Objects(names, values, max) ==
    UNION { [D -> values] : D \in { S \in SUBSET names : Cardinality(S) <= max } }

-----------------------------------------------------------------------------
(* Key expressions and payloads: buildKeyValue, formatKeyValue,            *)
(* validateAndCleanData                                                   *)

\* the outcome of a helper that either returns a string or throws an Error
Returned(str) ==
    [threw |-> FALSE, value |-> str, kind |-> "", subject |-> "", names |-> <<>>]

Thrown(kind, subject, names) ==
    [threw |-> TRUE, value |-> "", kind |-> kind, subject |-> subject, names |-> names]

\* a formatter that quotes a string value without doubling its quotes
formatKeyValueUnescaped(keyProperty, value) ==
    IF value = Null \/ value = Undefined
    THEN Thrown("KeyNull", keyProperty.name, <<>>)
    ELSE LET strValue == String(value)
             type == ToLowerCase(keyProperty.type)
         IN  IF Includes(type, "guid") \/ Includes(type, "uuid")
             THEN Returned("guid'" \o strValue \o "'")
             ELSE IF Includes(type, "int") \/ Includes(type, "decimal")
                     \/ Includes(type, "double") \/ Includes(type, "float")
             THEN Returned(strValue)
             ELSE IF Includes(type, "datetime") \/ Includes(type, "date")
             THEN Returned("datetime'" \o strValue \o "'")
             ELSE Returned("'" \o strValue \o "'")

formatKeyValue(keyProperty, value) ==
    IF value = Null \/ value = Undefined
    THEN Thrown("KeyNull", keyProperty.name, <<>>)
    ELSE LET strValue == String(value)
             type == ToLowerCase(keyProperty.type)
         IN  IF Includes(type, "guid") \/ Includes(type, "uuid")
             THEN Returned("guid'" \o strValue \o "'")
             ELSE IF Includes(type, "int") \/ Includes(type, "decimal")
                     \/ Includes(type, "double") \/ Includes(type, "float")
             THEN Returned(strValue)
             ELSE IF Includes(type, "datetime") \/ Includes(type, "date")
             THEN Returned("datetime'" \o strValue \o "'")
             ELSE Returned("'" \o ReplaceQuotes(strValue) \o "'")

\* key properties taken in the order of entityType.keys
KeyPropertiesInKeyOrder(entityType) ==
    LET present == SelectSeq(entityType.keys, LAMBDA k :
                       \E i \in 1..Len(entityType.properties) : entityType.properties[i].name = k)
    IN  [n \in 1..Len(present) |->
            entityType.properties[CHOOSE i \in 1..Len(entityType.properties) :
                /\ entityType.properties[i].name = present[n]
                /\ \A j \in 1..(i - 1) : entityType.properties[j].name # present[n]]]

\* entityType.properties.filter(p => entityType.keys.includes(p.name))
KeyPropertiesOf(entityType) ==
    SelectSeq(entityType.properties, LAMBDA p : Contains(entityType.keys, p.name))

\* a key builder that stops at the first absent key property
FirstMissingKeyOf(keyProperties, parameters) ==
    LET missing == SelectSeq(keyProperties, LAMBDA p : p.name \notin DOMAIN parameters)
    IN  IF missing = <<>> THEN <<>> ELSE <<Head(missing)>>

\* keyProperties.filter(p => !(p.name in parameters))
MissingKeysOf(keyProperties, parameters) ==
    SelectSeq(keyProperties, LAMBDA p : p.name \notin DOMAIN parameters)

buildKeyValue(entityType, parameters) ==
    LET keyProperties == KeyPropertiesOf(entityType)
        missingKeys == MissingKeysOf(keyProperties, parameters)
        formatted == [i \in 1..Len(keyProperties) |->
                         formatKeyValue(keyProperties[i], Get(parameters, keyProperties[i].name))]
        keyParts == [i \in 1..Len(keyProperties) |->
                         keyProperties[i].name \o "=" \o formatted[i].value]
    IN  IF missingKeys # <<>>
        THEN Thrown("MissingKey", "", [i \in 1..Len(missingKeys) |-> missingKeys[i].name])
        ELSE IF Len(keyProperties) = 1
        THEN formatted[1]
        ELSE IF \E i \in 1..Len(keyProperties) : formatted[i].threw
        THEN formatted[CHOOSE i \in 1..Len(keyProperties) :
                          /\ formatted[i].threw
                          /\ \A j \in 1..(i - 1) : ~formatted[j].threw]
        ELSE Returned(Join(keyParts, ","))

\* a cleaner that lets key fields through on create
validateAndCleanDataKeepingKeys(entityType, data, operation) ==
    LET kept == { key \in DOMAIN data :
                    /\ key \notin {"__metadata", "__deferred", "__key", "__uri"}
                    /\ data[key] # Undefined
                    /\ \E i \in 1..Len(entityType.properties) :
                           entityType.properties[i].name = key }
    IN  [key \in kept |-> data[key]]

reserved == {"__metadata", "__deferred", "__key", "__uri"}

validateAndCleanData(entityType, data, operation) ==
    LET kept == { key \in DOMAIN data :
                    /\ key \notin reserved
                    /\ data[key] # Undefined
                    /\ \E i \in 1..Len(entityType.properties) :
                           entityType.properties[i].name = key
                    /\ ~(operation = "create" /\ Contains(entityType.keys, key)) }
    IN  [key \in kept |-> data[key]]

-----------------------------------------------------------------------------
(* Categorizer: categorizeServices *)

\* the keyword lists, in the order the constructor tests them
CategoryRules ==
    << [category |-> "business-partner",
        id |-> {"business_partner", "bp_", "customer", "supplier"},
        title |-> {"business partner", "customer", "supplier"},
        desc |-> {}],
       [category |-> "sales",
        id |-> {"sales", "order", "quotation", "opportunity"},
        title |-> {"sales", "order"},
        desc |-> {"sales"}],
       [category |-> "finance",
        id |-> {"finance", "accounting", "payment", "invoice", "gl_", "ar_", "ap_"},
        title |-> {"finance", "accounting", "payment"},
        desc |-> {}],
       [category |-> "procurement",
        id |-> {"purchase", "procurement", "vendor", "po_"},
        title |-> {"procurement", "purchase", "vendor"},
        desc |-> {}],
       [category |-> "hr",
        id |-> {"employee", "hr_", "personnel", "payroll"},
        title |-> {"employee", "human", "personnel"},
        desc |-> {}],
       [category |-> "logistics",
        id |-> {"logistics", "warehouse", "inventory", "material", "wm_", "mm_"},
        title |-> {"logistics", "material"},
        desc |-> {}] >>

\* a categorizer that files every service under all as well
CategoriesOfWithAll(service) ==
    LET id == ToLowerCase(service.id)
        title == ToLowerCase(service.title)
        desc == ToLowerCase(service.description)
        matched == SelectSeq(CategoryRules, LAMBDA r :
                       \/ \E w \in r.id : Includes(id, w)
                       \/ \E w \in r.title : Includes(title, w)
                       \/ \E w \in r.desc : Includes(desc, w))
    IN  [i \in 1..Len(matched) |-> matched[i].category] \o <<"all">>

CategoriesOf(service) ==
    LET id == ToLowerCase(service.id)
        title == ToLowerCase(service.title)
        desc == ToLowerCase(service.description)
        matched == SelectSeq(CategoryRules, LAMBDA r :
                       \/ \E w \in r.id : Includes(id, w)
                       \/ \E w \in r.title : Includes(title, w)
                       \/ \E w \in r.desc : Includes(desc, w))
    IN  IF matched = <<>> THEN <<"all">>
        ELSE [i \in 1..Len(matched) |-> matched[i].category]

\* this.serviceCategories after the loop: Map.set keeps the last entry of an id
categorizeServices(services) ==
    [id \in { services[i].id : i \in 1..Len(services) } |->
        CategoriesOf(services[CHOOSE i \in 1..Len(services) :
                                 /\ services[i].id = id
                                 /\ \A j \in (i + 1)..Len(services) : services[j].id # id])]

-----------------------------------------------------------------------------
(* Transport boundary: SAPClient *)

\* one call of readEntitySet / readEntity / createEntity / updateEntity /
\* deleteEntity, with the token getExecutionDestination hands to the
\* destination service
TransportCall(op, service, entityType, key, data, queryOptions, token) ==
    [op |-> op, servicePath |-> service.url, entitySet |-> entityType.entitySet,
     key |-> key, data |-> data, queryOptions |-> queryOptions, token |-> token]

\* what executeHttpRequest did: it returned, or it threw an error whose
\* rootCause.response holds the upstream status, data.error.message and
\* statusText, or an error without a response; `raw` is the error's own
\* message
TransportOutcome(ok, hasResponse, status, message, statusText, raw) ==
    [ok |-> ok, response |-> hasResponse, status |-> status, message |-> message,
     statusText |-> statusText, raw |-> raw]

\* executeRequest either returns the response or throws handleError(error)
TransportOutcomes ==
    {TransportOutcome(TRUE, TRUE, 200, "", "OK", ""),
     TransportOutcome(FALSE, TRUE, 404, "Resource not found", "Not Found",
                      "Request failed with status code 404"),
     TransportOutcome(FALSE, TRUE, 500, "", "Internal Server Error",
                      "Request failed with status code 500"),
     TransportOutcome(FALSE, TRUE, 503, "", "", "Request failed with status code 503"),
     TransportOutcome(FALSE, FALSE, 0, "", "", "Destination URL is not configured")}

\* an error handed on as it was thrown
handleErrorUnwrapped(outcome) == outcome.raw

\* handleError: the message of the error executeRequest throws
handleError(outcome) ==
    IF outcome.response
    THEN "SAP API Error " \o NatToString(outcome.status) \o ": "
             \o (IF outcome.message # "" THEN outcome.message
                 ELSE IF outcome.statusText # "" THEN outcome.statusText
                 ELSE "Unknown error")
    ELSE outcome.raw

-----------------------------------------------------------------------------
(* Operation dispatcher: executeEntityOperation *)

validOperations == <<"read", "read-single", "create", "update", "delete">>

\* the value a tool handler returns; `caught` marks the result the catch block
\* builds (message followed by the troubleshooting text)
ErrorResult(kind, subject, names, caught) ==
    [isError |-> TRUE, caught |-> caught, kind |-> kind, subject |-> subject,
     names |-> names, description |-> ""]

\* the result the catch block builds for an error the client threw; `subject`
\* is error.message and `cause` the error the handler logs
TransportErrorResult(outcome) ==
    [isError |-> TRUE, caught |-> TRUE, kind |-> "Transport", subject |-> handleError(outcome),
     names |-> <<>>, description |-> "", cause |-> outcome]

\* the text of an error result of execute-sap-operation for the call `args`
errorText(result, args) ==
    LET message ==
            CASE result.kind = "InvalidOperation" ->
                     "Invalid operation: " \o result.subject \o ". Valid: "
                         \o Join(validOperations, ", ")
              [] result.kind = "ServiceNotFound" -> "Service not found: " \o args.serviceId
              [] result.kind = "EntityNotFound" ->
                     "Entity '" \o args.entityName \o "' not found in service '"
                         \o args.serviceId \o "'"
              [] result.kind = "CapabilityDenied" ->
                     "Entity '" \o args.entityName \o "' does not support "
                         \o result.subject \o " operations"
              [] result.kind = "MissingKey" ->
                     "Missing required key properties: " \o Join(result.names, ", ")
              [] result.kind = "KeyNull" ->
                     "Key property " \o result.subject \o " cannot be null"
              [] result.kind = "Transport" -> result.subject
        troubleshooting ==
            "\n\nTroubleshooting:\n1. Verify entity supports this operation"
                \o "\n2. Check all required key fields are provided"
                \o "\n3. Validate data types match entity schema"
    IN  "ERROR: " \o message \o (IF result.caught THEN troubleshooting ELSE "")

SuccessResult(description) ==
    [isError |-> FALSE, caught |-> FALSE, kind |-> "SUCCESS", subject |-> "",
     names |-> <<>>, description |-> description]

\* lines 350-362: the query options the dispatcher builds
BuildQueryOptions(options) ==
    LET source == ("$filter" :> "filterString") @@ ("$select" :> "selectString")
                      @@ ("$expand" :> "expandString") @@ ("$orderby" :> "orderbyString")
                      @@ ("$top" :> "topNumber") @@ ("$skip" :> "skipNumber")
        present == { q \in DOMAIN source : Truthy(Get(options, source[q])) }
    IN  [q \in present |-> options[source[q]]]

\* the outcome of one handler run: result, transport calls, client token
Outcome(result, calls, token) ==
    [response |-> result, calls |-> calls, currentUserToken |-> token]

\* a transport call and what the handler makes of its outcome
Dispatch(call, description, outcome) ==
    IF outcome.ok
    THEN Outcome(SuccessResult(description), <<call>>, call.token)
    ELSE Outcome(TransportErrorResult(outcome), <<call>>, call.token)

\* a helper threw before any transport call: the catch block reports it
Caught(thrown, token) ==
    Outcome(ErrorResult(thrown.kind, thrown.subject, thrown.names, TRUE), <<>>, token)

\* case 'read'
ExecuteRead(service, entityType, entityName, options, token, outcome) ==
    Dispatch(TransportCall("readEntitySet", service, entityType, "", EmptyObject,
                           BuildQueryOptions(options), token),
             "Reading " \o entityName \o " records"
                 \o (IF Truthy(Get(options, "filterString"))
                     THEN " with filter: " \o String(options["filterString"]) ELSE "")
                 \o (IF Truthy(Get(options, "topNumber"))
                     THEN " (top " \o String(options["topNumber"]) \o ")" ELSE ""),
             outcome)

\* case 'read-single'
ExecuteReadSingle(service, entityType, entityName, parameters, token, outcome) ==
    LET keyValue == buildKeyValue(entityType, parameters)
    IN  IF keyValue.threw THEN Caught(keyValue, token)
        ELSE Dispatch(TransportCall("readEntity", service, entityType, keyValue.value,
                                    EmptyObject, EmptyObject, token),
                      "Reading single " \o entityName \o " with key: " \o keyValue.value,
                      outcome)

\* a create case that posts before it looks at the capability flag
ExecuteCreateCallsFirst(service, entityType, entityName, parameters, token, outcome) ==
    LET sent == Dispatch(TransportCall("createEntity", service, entityType, "",
                                       validateAndCleanData(entityType, parameters, "create"),
                                       EmptyObject, token),
                         "Creating new " \o entityName, outcome)
    IN  IF ~entityType.creatable
        THEN Outcome(ErrorResult("CapabilityDenied", "create", <<>>, TRUE), sent.calls, token)
        ELSE sent

\* case 'create'
ExecuteCreate(service, entityType, entityName, parameters, token, outcome) ==
    IF ~entityType.creatable
    THEN Caught(Thrown("CapabilityDenied", "create", <<>>), token)
    ELSE Dispatch(TransportCall("createEntity", service, entityType, "",
                                validateAndCleanData(entityType, parameters, "create"),
                                EmptyObject, token),
                  "Creating new " \o entityName,
                  outcome)

\* an update payload that still holds the key fields
UpdateDataWithKeys(entityType, parameters) == parameters

\* const updateData = { ...parameters }; keys.forEach(key => delete updateData[key])
UpdateDataOf(entityType, parameters) ==
    [k \in { f \in DOMAIN parameters : ~Contains(entityType.keys, f) } |-> parameters[k]]

\* an update case that builds the key before it looks at the capability flag
ExecuteUpdateKeyFirst(service, entityType, entityName, parameters, token, outcome) ==
    LET updateKeyValue == buildKeyValue(entityType, parameters)
        updateData == UpdateDataOf(entityType, parameters)
    IN  IF updateKeyValue.threw THEN Caught(updateKeyValue, token)
        ELSE IF ~entityType.updatable
        THEN Caught(Thrown("CapabilityDenied", "update", <<>>), token)
        ELSE Dispatch(TransportCall("updateEntity", service, entityType, updateKeyValue.value,
                                    validateAndCleanData(entityType, updateData, "update"),
                                    EmptyObject, token),
                      "Updating " \o entityName \o " with key: " \o updateKeyValue.value,
                      outcome)

\* case 'update'
ExecuteUpdate(service, entityType, entityName, parameters, token, outcome) ==
    LET updateKeyValue == buildKeyValue(entityType, parameters)
        updateData == UpdateDataOf(entityType, parameters)
    IN  IF ~entityType.updatable
        THEN Caught(Thrown("CapabilityDenied", "update", <<>>), token)
        ELSE IF updateKeyValue.threw THEN Caught(updateKeyValue, token)
        ELSE Dispatch(TransportCall("updateEntity", service, entityType, updateKeyValue.value,
                                    validateAndCleanData(entityType, updateData, "update"),
                                    EmptyObject, token),
                      "Updating " \o entityName \o " with key: " \o updateKeyValue.value,
                      outcome)

\* a delete case without the capability check
ExecuteDeleteUnchecked(service, entityType, entityName, parameters, token, outcome) ==
    LET deleteKeyValue == buildKeyValue(entityType, parameters)
    IN  IF deleteKeyValue.threw THEN Caught(deleteKeyValue, token)
        ELSE Dispatch(TransportCall("deleteEntity", service, entityType, deleteKeyValue.value,
                                    EmptyObject, EmptyObject, token),
                      "Deleting " \o entityName \o " with key: " \o deleteKeyValue.value,
                      outcome)

\* case 'delete'
ExecuteDelete(service, entityType, entityName, parameters, token, outcome) ==
    LET deleteKeyValue == buildKeyValue(entityType, parameters)
    IN  IF ~entityType.deletable
        THEN Caught(Thrown("CapabilityDenied", "delete", <<>>), token)
        ELSE IF deleteKeyValue.threw THEN Caught(deleteKeyValue, token)
        ELSE Dispatch(TransportCall("deleteEntity", service, entityType, deleteKeyValue.value,
                                    EmptyObject, EmptyObject, token),
                      "Deleting " \o entityName \o " with key: " \o deleteKeyValue.value,
                      outcome)

\* a choice that does not look at useUserToken
tokenForCallAlways(args, regToken) == regToken

\* args.useUserToken !== false ? this.userToken : undefined
tokenForCall(args, regToken) ==
    IF Get(args.options, "useUserToken") # JsBoolean(FALSE) THEN regToken ELSE Undefined

executeEntityOperation(services, regToken, clientToken, args, outcome) ==
    LET serviceId == args.serviceId
        entityName == args.entityName
        operation == ToLowerCase(args.operation)
        parameters == IF args.parameters = Undefined THEN EmptyObject ELSE args.parameters
        service == FirstOf(SelectSeq(services, LAMBDA s : s.id = serviceId))
        entityType == FirstOf(SelectSeq(EntityTypesOf(service[1]),
                                       LAMBDA e : e.name = entityName))
        \* this.sapClient.setUserToken(args.useUserToken !== false ? this.userToken : undefined)
        token == tokenForCall(args, regToken)
    IN  IF ~Contains(validOperations, operation)
        THEN Caught(Thrown("InvalidOperation", operation, <<>>), clientToken)
        ELSE IF service = <<>>
        THEN Outcome(ErrorResult("ServiceNotFound", serviceId, <<>>, FALSE), <<>>, clientToken)
        ELSE IF entityType = <<>>
        THEN Outcome(ErrorResult("EntityNotFound", entityName, <<>>, FALSE), <<>>, clientToken)
        ELSE CASE operation = "read" ->
                    ExecuteRead(service[1], entityType[1], entityName, args.options, token, outcome)
               [] operation = "read-single" ->
                    ExecuteReadSingle(service[1], entityType[1], entityName, parameters, token, outcome)
               [] operation = "create" ->
                    ExecuteCreate(service[1], entityType[1], entityName, parameters, token, outcome)
               [] operation = "update" ->
                    ExecuteUpdate(service[1], entityType[1], entityName, parameters, token, outcome)
               [] operation = "delete" ->
                    ExecuteDelete(service[1], entityType[1], entityName, parameters, token, outcome)

-----------------------------------------------------------------------------
(* Discovery engine: performMinimalSearch, discoverServicesAndEntitiesMinimal *)

\* scores are kept as hundredths: 0.95, 0.9, 0.85, 0.5
ScoreEntity == 95
ScoreServiceId == 90
ScoreServiceTitle == 85
ScoreListed == 50

validCategories ==
    <<"business-partner", "sales", "finance", "procurement", "hr", "logistics", "all">>

\* the `service` summary every match carries
ServiceSummary(service, categories) ==
    [serviceId |-> service.id, serviceName |-> service.title,
     entityCount |-> Len(EntityTypesOf(service)),
     categories |-> categories[service.id]]

\* a scoring that looks at the title before the id
serviceScoreTitleFirst(service, query) ==
    IF query = "" THEN 0
    ELSE IF Includes(ToLowerCase(service.title), query) THEN ScoreServiceTitle
    ELSE IF Includes(ToLowerCase(service.id), query) THEN ScoreServiceId
    ELSE 0

\* let serviceScore = 0; if (query) { id ? 0.9 : title ? 0.85 }
serviceScore(service, query) ==
    IF query = "" THEN 0
    ELSE IF Includes(ToLowerCase(service.id), query) THEN ScoreServiceId
    ELSE IF Includes(ToLowerCase(service.title), query) THEN ScoreServiceTitle
    ELSE 0

\* the matches one service of the loop contributes
MatchesOfService(service, categories, query, category) ==
    LET score == serviceScore(service, query)
        entityTypes == EntityTypesOf(service)
        serviceMatch == [type |-> "service",
                         score |-> IF score = 0 THEN ScoreListed ELSE score,
                         service |-> ServiceSummary(service, categories),
                         entities |-> [i \in 1..Len(entityTypes) |-> entityTypes[i].name]]
        hits == SelectSeq(entityTypes, LAMBDA e : Includes(ToLowerCase(e.name), query))
        entityMatches == [i \in 1..Len(hits) |->
                             [type |-> "entity", score |-> ScoreEntity,
                              service |-> ServiceSummary(service, categories),
                              entity |-> hits[i].name]]
    IN  IF category # "all" /\ ~Contains(categories[service.id], category)
        THEN <<>>
        ELSE (IF score > 0 \/ query = "" THEN <<serviceMatch>> ELSE <<>>)
                 \o (IF query # "" THEN entityMatches ELSE <<>>)

RECURSIVE performMinimalSearch(_, _, _, _)
performMinimalSearch(services, categories, query, category) ==
    IF services = <<>> THEN <<>>
    ELSE MatchesOfService(Head(services), categories, query, category)
             \o performMinimalSearch(Tail(services), categories, query, category)

\* the order String.prototype.localeCompare gives the characters of ids and
\* titles: space and punctuation, digits, then letters without regard to case
Collation == " _-.0123456789abcdefghijklmnopqrstuvwxyz"

Weight(c) == CHOOSE i \in 1..Len(Collation) : SubSeq(Collation, i, i) = c

\* a.localeCompare(b) < 0
RECURSIVE PrimaryLess(_, _)
PrimaryLess(a, b) ==
    IF a = "" THEN b # ""
    ELSE IF b = "" THEN FALSE
    ELSE LET wa == Weight(SubSeq(a, 1, 1))
             wb == Weight(SubSeq(b, 1, 1))
         IN  IF wa # wb THEN wa < wb
             ELSE PrimaryLess(SubSeq(a, 2, Len(a)), SubSeq(b, 2, Len(b)))

\* equal letters: the lower-case form sorts first
RECURSIVE CaseLess(_, _)
CaseLess(a, b) ==
    IF a = "" \/ b = "" THEN FALSE
    ELSE LET ca == SubSeq(a, 1, 1)
             cb == SubSeq(b, 1, 1)
         IN  IF ca # cb THEN ca \notin DOMAIN UpperToLower
             ELSE CaseLess(SubSeq(a, 2, Len(a)), SubSeq(b, 2, Len(b)))

LocaleLess(a, b) ==
    LET la == ToLowerCase(a)
        lb == ToLowerCase(b)
    IN  IF la # lb THEN PrimaryLess(la, lb) ELSE CaseLess(a, b)

\* Array.prototype.sort is stable: elements of equal rank keep their order.
\* less[<<i, j>>] tells whether the comparator puts seq[i] before seq[j].
StableSort(seq, less) ==
    LET n == Len(seq)
        rank(i) == 1 + Cardinality({ j \in 1..n :
                                       \/ less[<<j, i>>]
                                       \/ (~less[<<i, j>>] /\ j < i) })
        ranks == SubSeq([i \in 1..n |-> rank(i)], 1, n)
    IN  [r \in 1..n |-> seq[CHOOSE i \in 1..n : ranks[i] = r]]

\* a comparator that leaves the matches in search order
ByScoreIgnored(matches) ==
    [p \in (1..Len(matches)) \X (1..Len(matches)) |-> FALSE]

\* (a, b) => b.score - a.score
ByScore(matches) ==
    [p \in (1..Len(matches)) \X (1..Len(matches)) |->
        matches[p[1]].score > matches[p[2]].score]

\* a listing left in catalog order
ByNothing(matches) ==
    [p \in (1..Len(matches)) \X (1..Len(matches)) |-> FALSE]

\* (a, b) => both services ? a.service.serviceName.localeCompare(...) : 0
ByServiceName(matches) ==
    [p \in (1..Len(matches)) \X (1..Len(matches)) |->
        /\ matches[p[1]].type = "service"
        /\ matches[p[2]].type = "service"
        /\ LocaleLess(matches[p[1]].service.serviceName, matches[p[2]].service.serviceName)]

\* an answer that is never truncated
SliceNothing(seq, limit) == seq

\* Array.prototype.slice(0, limit)
Slice(seq, limit) ==
    LET n == IF limit < 0 THEN (IF Len(seq) + limit < 0 THEN 0 ELSE Len(seq) + limit)
             ELSE IF limit > Len(seq) THEN Len(seq) ELSE limit
    IN  SubSeq(seq, 1, n)

DefaultLimit == 20

\* a discovery that never falls back to the unfiltered listing
FallbackNever(found, query) == FALSE

\* if (matches.length === 0 && query): the search is re-run with an empty query
FallbackNeeded(found, query) == found = <<>> /\ query # ""

\* a fallback that also drops the category filter
FallbackSearchAnyCategory(services, categories, category) ==
    performMinimalSearch(services, categories, "", "all")

\* matches = this.performMinimalSearch("", category)
FallbackSearch(services, categories, category) ==
    performMinimalSearch(services, categories, "", category)

discoverServicesAndEntitiesMinimal(services, categories, args) ==
    LET query == IF Truthy(args.query) THEN ToLowerCase(args.query.s) ELSE ""
        requestedCategory == IF Truthy(args.category) THEN ToLowerCase(args.category.s) ELSE "all"
        limit == IF Truthy(args.limit) THEN args.limit.n ELSE DefaultLimit
        category == IF Contains(validCategories, requestedCategory)
                    THEN requestedCategory ELSE "all"
        found == performMinimalSearch(services, categories, query, category)
        returnedAllServices == FallbackNeeded(found, query)
        matches == IF returnedAllServices
                   THEN FallbackSearch(services, categories, category)
                   ELSE found
        sorted == IF ~returnedAllServices /\ query # ""
                  THEN StableSort(matches, ByScore(matches))
                  ELSE StableSort(matches, ByServiceName(matches))
        limitedMatches == Slice(sorted, limit)
    IN  [isError |-> FALSE, kind |-> "discover",
         query |-> IF query = "" THEN "all" ELSE query,
         category |-> category,
         returnedAllServices |-> returnedAllServices,
         totalFound |-> Len(matches),
         showing |-> Len(limitedMatches),
         matches |-> limitedMatches]

-----------------------------------------------------------------------------
(* Metadata resolver: getEntityMetadataFull *)

\* a schema that marks every property as a key
DescribedPropertiesAllKeys(entityType) ==
    [i \in 1..Len(entityType.properties) |->
        [name |-> entityType.properties[i].name,
         type |-> entityType.properties[i].type,
         isKey |-> TRUE]]

\* entityType.properties.map(prop => ({ ..., isKey: entityType.keys.includes(prop.name) }))
DescribedProperties(entityType) ==
    [i \in 1..Len(entityType.properties) |->
        [name |-> entityType.properties[i].name,
         type |-> entityType.properties[i].type,
         isKey |-> Contains(entityType.keys, entityType.properties[i].name)]]

\* service.metadata?.entityTypes?.map(e => e.name).join(', ') || 'none'
AvailableEntities(service) ==
    LET names == [j \in 1..Len(EntityTypesOf(service)) |-> EntityTypesOf(service)[j].name]
        text == Join(names, ", ")
    IN  [names |-> names, text |-> IF text = "" THEN "none" ELSE text]

getEntityMetadataFull(services, args) ==
    LET serviceId == args.serviceId
        entityName == args.entityName
        service == FirstOf(SelectSeq(services, LAMBDA s : s.id = serviceId))
        entityType == FirstOf(SelectSeq(EntityTypesOf(service[1]),
                                       LAMBDA e : e.name = entityName))
    IN  IF serviceId = "" \/ entityName = ""
        THEN ErrorResult("Required", "", <<>>, FALSE)
        ELSE IF service = <<>>
        THEN ErrorResult("ServiceNotFound", serviceId, <<>>, FALSE)
        ELSE IF entityType = <<>>
        THEN [ErrorResult("EntityNotFound", entityName, AvailableEntities(service[1]).names, FALSE)
                 EXCEPT !.description = AvailableEntities(service[1]).text]
        ELSE [isError |-> FALSE, caught |-> FALSE, kind |-> "metadata",
              service |-> [serviceId |-> service[1].id, serviceName |-> service[1].title,
                           description |-> service[1].description, url |-> service[1].url],
              entity |-> [name |-> entityType[1].name, entitySet |-> entityType[1].entitySet,
                          keyProperties |-> entityType[1].keys,
                          propertyCount |-> Len(entityType[1].properties)],
              capabilities |-> [readable |-> TRUE, creatable |-> entityType[1].creatable,
                                updatable |-> entityType[1].updatable,
                                deletable |-> entityType[1].deletable],
              properties |-> DescribedProperties(entityType[1])]

-----------------------------------------------------------------------------
(* Tool-name allocator: SAPToolRegistry.generateShortToolName *)

\* private toolNameMapping = new Map(); private usedShortNames = new Set()
\* no caller has asked for a server
InitSessions ==
    /\ sessions = <<>>
    /\ servers = <<>>
    /\ sessionCalls = {}
    /\ inFlight = <<>>

\* no call of generateShortToolName is running
NoLoop == [pc |-> "idle"]

InitAllocator ==
    /\ usedShortNames = {}
    /\ toolNameMapping = <<>>
    /\ allocations = <<>>
    /\ suffixLoop = NoLoop

UpperCaseLetters == DOMAIN UpperToLower

LowerCaseLetters == { UpperToLower[c] : c \in DOMAIN UpperToLower }

\* String.prototype.substring(0, end)
Substring(str, end) ==
    SubSeq(str, 1, IF end > Len(str) THEN Len(str) ELSE IF end < 0 THEN 0 ELSE end)

StartsWith(str, prefix) ==
    Len(prefix) <= Len(str) /\ SubSeq(str, 1, Len(prefix)) = prefix

\* the string matches \d+
IsDigits(str) ==
    /\ str # ""
    /\ \A i \in 1..Len(str) : \E d \in 1..10 : SubSeq(str, i, i) = Digit[d]

\* abbr.replace(/^(ZBP_|ZC_|ZI_|YBP_|YC_|YI_)/, '')
StripPrefix(str) ==
    LET prefixes == <<"ZBP_", "ZC_", "ZI_", "YBP_", "YC_", "YI_">>
        found == SelectSeq(prefixes, LAMBDA p : StartsWith(str, p))
    IN  IF found = <<>> THEN str
        ELSE SubSeq(str, Len(found[1]) + 1, Len(str))

\* the tail matches (_SRV|_SRV_0001|_CDS|_SERVICE)(_\d+)?$
IsServiceSuffix(tail) ==
    \E alt \in {"_SRV", "_SRV_0001", "_CDS", "_SERVICE"} :
        /\ StartsWith(tail, alt)
        /\ LET rest == SubSeq(tail, Len(alt) + 1, Len(tail))
           IN  \/ rest = ""
               \/ /\ StartsWith(rest, "_")
                  /\ IsDigits(SubSeq(rest, 2, Len(rest)))

\* abbr.replace(/(_SRV|_SRV_0001|_CDS|_SERVICE)(_\d+)?$/, ''): the leftmost match
StripSuffix(str) ==
    LET starts == { i \in 1..Len(str) : IsServiceSuffix(SubSeq(str, i, Len(str))) }
    IN  IF starts = {} THEN str
        ELSE SubSeq(str, 1, (CHOOSE i \in starts : \A j \in starts : i <= j) - 1)

\* abbr.split('_').filter(p => p.length > 0)
RECURSIVE SplitParts(_, _)
SplitParts(str, current) ==
    IF str = "" THEN (IF current = "" THEN <<>> ELSE <<current>>)
    ELSE IF SubSeq(str, 1, 1) = "_"
    THEN (IF current = "" THEN <<>> ELSE <<current>>) \o SplitParts(SubSeq(str, 2, Len(str)), "")
    ELSE SplitParts(SubSeq(str, 2, Len(str)), current \o SubSeq(str, 1, 1))

abbreviateServiceId(serviceId) ==
    LET stripped == StripSuffix(StripPrefix(serviceId))
        parts == SplitParts(stripped, "")
        collapsed == IF Len(parts) > 2 THEN parts[1] \o "_" \o parts[Len(parts)] ELSE stripped
    IN  IF Len(stripped) > 12
        THEN (IF Len(collapsed) > 12 THEN Substring(collapsed, 12) ELSE collapsed)
        ELSE stripped

\* abbr.match(/[A-Z]/g).join('')
RECURSIVE Capitals(_)
Capitals(str) ==
    IF str = "" THEN ""
    ELSE (IF SubSeq(str, 1, 1) \in UpperCaseLetters THEN SubSeq(str, 1, 1) ELSE "")
             \o Capitals(SubSeq(str, 2, Len(str)))

abbreviateEntityName(entityName) ==
    LET camel == /\ Len(entityName) >= 2
                 /\ SubSeq(entityName, 1, 1) \in UpperCaseLetters
                 /\ SubSeq(entityName, 2, 2) \in LowerCaseLetters
        abbr == IF camel /\ Len(Capitals(entityName)) > 1 THEN Capitals(entityName)
                ELSE entityName
    IN  IF Len(abbr) > 12 THEN Substring(abbr, 12) ELSE abbr

\* createHash('sha256').update(input).digest('hex') of the names the model
\* uses, cut to the first eight digits
Sha256Hex ==
    [ZC_SALESORDER_MANAGEMENT_EXTENDED_PROCESSING_SRV |-> "4a3d0ed1",
     ZI_SALESORDER_ARCHIVE_AND_RETENTION_PROCESSING_SRV_0001 |-> "c33d4511",
     SALESORDER_P |-> "fc6fc4da",
     SalesOrderHeaderExtensionItem |-> "cdaf0893",
     SOHEI |-> "8c203d4f"]

getShortHash(input, length) == Substring(Sha256Hex[input], length)

\* the name with the collision suffix of a counter; counter 0 is the candidate
SuffixedName(candidate, counter) ==
    IF counter = 0 THEN candidate
    ELSE LET suffix == "-" \o NatToString(counter)
         IN  Substring(candidate, 64 - Len(suffix)) \o suffix

\* a loop that jumps to the counter after the number of used names
counterSkipping(used, candidate) ==
    IF candidate \in used THEN Cardinality(used) + 1 ELSE 0

\* let counter = 1; while (this.usedShortNames.has(finalName)) { ...; counter++ }:
\* the number of suffixes tried when the loop ends, 0 when the candidate is free
counterAfterLoop(used, candidate) ==
    CHOOSE c \in 0..Cardinality(used) :
        /\ SuffixedName(candidate, c) \notin used
        /\ \A b \in 0..(c - 1) : SuffixedName(candidate, b) \in used

\* an allocator that returns the long candidate as it is
generateShortToolNameVerbatim(used, operation, serviceId, entityName) ==
    [name |-> operation \o "-" \o serviceId \o "-" \o entityName, registered |-> FALSE,
     candidate |-> operation \o "-" \o serviceId \o "-" \o entityName]

\* generateShortToolName: the name returned, and whether it was added to
\* usedShortNames and toolNameMapping (a verbatim name is not)
generateShortToolName(used, operation, serviceId, entityName) ==
    LET verbatim == operation \o "-" \o serviceId \o "-" \o entityName
        abbreviated == operation \o "-" \o abbreviateServiceId(serviceId)
                           \o "-" \o abbreviateEntityName(entityName)
        candidate == IF Len(abbreviated) > 60
                     THEN operation \o "-" \o getShortHash(serviceId, 8)
                              \o "-" \o getShortHash(entityName, 8)
                     ELSE abbreviated
        counter == counterAfterLoop(used, candidate)
    IN  IF Len(verbatim) <= 64
        THEN [name |-> verbatim, registered |-> FALSE, candidate |-> verbatim]
        ELSE [name |-> SuffixedName(candidate, counter), registered |-> TRUE,
              candidate |-> candidate]

-----------------------------------------------------------------------------
(* Inputs of the tool calls *)

\* session tokens a caller may present
Tokens == {"tokA"}

ParameterNames == {"Id", "Pos", "Note", "Bogus", "__metadata"}

ParameterValues == {JsString("O'Brien"), JsNumber(42), Null, Undefined}

OptionValues ==
    [filterString |-> {JsString(""), JsString("Note eq 'x'")},
     selectString |-> {JsString(""), JsString("Note")},
     expandString |-> {JsString(""), JsString("Items")},
     orderbyString |-> {JsString(""), JsString("Note desc")},
     topNumber |-> {JsNumber(-1), JsNumber(0), JsNumber(2)},
     skipNumber |-> {JsNumber(-1), JsNumber(0), JsNumber(2)},
     useUserToken |-> {JsBoolean(TRUE), JsBoolean(FALSE)}]

\* the optional arguments of execute-sap-operation, at most `max` supplied
OptionObjects(max) ==
    { o \in Objects(DOMAIN OptionValues, UNION { OptionValues[k] : k \in DOMAIN OptionValues }, max) :
        \A k \in DOMAIN o : o[k] \in OptionValues[k] }

OperationInputs == {"read", "read-single", "create", "update", "delete", "Delete", "purge"}

ServiceIdInputs(services) == { services[i].id : i \in 1..Len(services) } \cup {"NOPE"}

EntityNameInputs(services) ==
    UNION { { EntityTypesOf(services[i])[j].name : j \in 1..Len(EntityTypesOf(services[i])) } :
              i \in 1..Len(services) } \cup {"Nope"}

\* execute-sap-operation calls: either a parameters object and no optional
\* argument, or optional arguments and no parameters object
ExecuteRequests(services) ==
    [tool : {"execute-sap-operation"},
     serviceId : ServiceIdInputs(services),
     entityName : EntityNameInputs(services),
     operation : OperationInputs,
     parameters : Objects(ParameterNames, ParameterValues, MaxFields),
     options : {EmptyObject}]
    \cup
    [tool : {"execute-sap-operation"},
     serviceId : ServiceIdInputs(services),
     entityName : EntityNameInputs(services),
     operation : OperationInputs,
     parameters : {Undefined},
     options : OptionObjects(MaxOptions)]

\* get-entity-metadata calls: z.string() admits the empty string
DescribeRequests(services) ==
    [tool : {"get-entity-metadata"},
     serviceId : ServiceIdInputs(services) \cup {""},
     entityName : EntityNameInputs(services) \cup {""}]

QueryInputs ==
    {Undefined, JsString(""), JsString("sales"), JsString("ORDER"), JsString("employee"),
     JsString("e"), JsString("item"), JsString("zzz")}

CategoryInputs ==
    {Undefined, JsString("all"), JsString("sales"), JsString("Sales"), JsString("hr"),
     JsString("finance"), JsString("bogus")}

\* the input schema admits a limit from 1 to 50
LimitInputs == {Undefined, JsNumber(1), JsNumber(2), JsNumber(50)}

DiscoverRequests ==
    [tool : {"discover-sap-data"}, query : QueryInputs, category : CategoryInputs,
     limit : LimitInputs]

\* declared types of key properties: the EDM names the metadata parser stores
\* and the plain tags of the data model
KeyTypeInputs ==
    {"Edm.String", "Edm.Guid", "Edm.Int16", "Edm.Int32", "Edm.Int64", "Edm.Decimal",
     "Edm.Double", "Edm.Single", "Edm.DateTime", "Edm.DateTimeOffset", "Edm.Date",
     "Edm.Time", "Edm.Boolean", "string", "guid", "int", "float", "datetime", ""}

KeyValueInputs ==
    {JsString("O'Brien"), JsString("abc-123"), JsString("1000"), JsString("''"),
     JsString(""), JsNumber(42), JsNumber(-7), JsNumber(0), JsBoolean(TRUE),
     Null, Undefined}

FormatRequests ==
    { [tool |-> "formatKeyValue", keyProperty |-> Property("Key", type), value |-> value] :
        type \in KeyTypeInputs, value \in KeyValueInputs }

NoRequest == [tool |-> "none"]

NoResponse == [kind |-> "none"]

-----------------------------------------------------------------------------
(* The state machine *)

\* new MCPServer(services): the registry and its client are constructed
Init ==
    /\ discoveredServices \in Catalogs
    /\ serviceCategories = categorizeServices(discoveredServices)
    /\ userToken = Undefined
    /\ currentUserToken = Undefined
    /\ request = NoRequest
    /\ response = NoResponse
    /\ transportCalls = <<>>
    /\ InitAllocator
    /\ InitSessions

\* HierarchicalSAPToolRegistry.setUserToken, which also sets the client's slot
SetUserToken(token) ==
    /\ request = NoRequest
    /\ userToken' = token
    /\ currentUserToken' = token
    /\ UNCHANGED <<discoveredServices, serviceCategories, request, response, transportCalls>>
    /\ UNCHANGED <<allocatorVars, sessionVars>>

\* the execute-sap-operation handler, from the call to the returned result
Execute(args, outcome) ==
    /\ request = NoRequest
    /\ LET run == executeEntityOperation(discoveredServices, userToken, currentUserToken,
                                         args, outcome)
       IN  /\ request' = args
           /\ response' = run.response
           /\ transportCalls' = run.calls
           /\ currentUserToken' = run.currentUserToken
    /\ UNCHANGED <<discoveredServices, serviceCategories, userToken>>
    /\ UNCHANGED <<allocatorVars, sessionVars>>

\* the discover-sap-data handler
Discover(args) ==
    /\ request = NoRequest
    /\ request' = args
    /\ response' = discoverServicesAndEntitiesMinimal(discoveredServices, serviceCategories, args)
    /\ UNCHANGED <<discoveredServices, serviceCategories, userToken, currentUserToken,
                   transportCalls>>
    /\ UNCHANGED <<allocatorVars, sessionVars>>

\* the get-entity-metadata handler
Describe(args) ==
    /\ request = NoRequest
    /\ request' = args
    /\ response' = getEntityMetadataFull(discoveredServices, args)
    /\ UNCHANGED <<discoveredServices, serviceCategories, userToken, currentUserToken,
                   transportCalls>>
    /\ UNCHANGED <<allocatorVars, sessionVars>>

\* the MCP server sends the handler's result to the caller; the registry is
\* ready for the next tool call
ReturnResult ==
    /\ request # NoRequest
    /\ request' = NoRequest
    /\ response' = NoResponse
    /\ transportCalls' = <<>>
    /\ UNCHANGED <<discoveredServices, serviceCategories, userToken, currentUserToken>>
    /\ UNCHANGED <<allocatorVars, sessionVars>>

\* a caller sets or clears the session token between tool calls
SetUserTokenCall ==
    /\ request = NoRequest
    /\ \E token \in { JsString(t) : t \in Tokens } \cup {Undefined} : SetUserToken(token)

\* a caller invokes execute-sap-operation
ExecuteCall ==
    /\ request = NoRequest
    /\ \E args \in ExecuteRequests(discoveredServices), outcome \in TransportOutcomes :
           Execute(args, outcome)

\* a caller invokes discover-sap-data
DiscoverCall ==
    /\ request = NoRequest
    /\ \E args \in DiscoverRequests : Discover(args)

\* a caller invokes get-entity-metadata
DescribeCall ==
    /\ request = NoRequest
    /\ \E args \in DescribeRequests(discoveredServices) : Describe(args)

Next ==
    \/ SetUserTokenCall
    \/ ExecuteCall
    \/ DiscoverCall
    \/ DescribeCall
    \/ ReturnResult

Spec == Init /\ [][Next]_vars

-----------------------------------------------------------------------------
(* Discovery on its own, over catalogs that include one larger than the
   default limit *)

\* a catalog of DefaultLimit + 1 services without metadata, whose titles run
\* against the catalog order
LargeCatalog ==
    [i \in 1..(DefaultLimit + 1) |->
        ODataService("API_SVC_" \o NatToString(i),
                     "Service " \o NatToString(DefaultLimit + 10 - i),
                     "OData service", "/sap/opu/odata/sap/API_SVC/", <<>>)]

InitListing ==
    /\ discoveredServices \in Catalogs \cup {LargeCatalog}
    /\ serviceCategories = categorizeServices(discoveredServices)
    /\ userToken = Undefined
    /\ currentUserToken = Undefined
    /\ request = NoRequest
    /\ response = NoResponse
    /\ transportCalls = <<>>
    /\ InitAllocator
    /\ InitSessions

NextListing ==
    \/ DiscoverCall
    \/ ReturnResult

SpecListing == InitListing /\ [][NextListing]_vars

-----------------------------------------------------------------------------
(* One MCPServer per caller: createMCPServer, setUserToken and execute calls
   of several callers, interleaved *)

Callers == {"alice", "bob"}

\* the identity token of each caller
CallerToken == [alice |-> "tokA", bob |-> "tokB"]

\* the tokens a caller passes: its own, or none
TokensOf(caller) == {JsString(CallerToken[caller]), Undefined}

\* the execute calls of the callers: a read with each setting of
\* useUserToken, and a create the entity does not allow
SessionRequests ==
    [tool : {"execute-sap-operation"},
     serviceId : {"SALES_SRV"},
     entityName : {"SalesOrderHeader"},
     operation : {"read"},
     parameters : {Undefined},
     options : {EmptyObject} \cup { [useUserToken |-> JsBoolean(b)] : b \in BOOLEAN }]
    \cup
    [tool : {"execute-sap-operation"},
     serviceId : {"SALES_SRV"},
     entityName : {"SalesOrderHeader"},
     operation : {"create"},
     parameters : {EmptyObject},
     options : {EmptyObject}]

InitSessionsSpec ==
    /\ discoveredServices = <<SalesService, EmployeeService, MiscService>>
    /\ serviceCategories = categorizeServices(discoveredServices)
    /\ userToken = Undefined
    /\ currentUserToken = Undefined
    /\ request = NoRequest
    /\ response = NoResponse
    /\ transportCalls = <<>>
    /\ InitAllocator
    /\ InitSessions

\* a constructor that hands back the first server built
newServerShared(built) == 1

\* new MCPServer(services): a server, registry and client of its own
newServer(built) == Cardinality(DOMAIN built) + 1

\* createMCPServer(services, token), up to its await
CreateMCPServer(caller, token) ==
    LET server == newServer(servers)
    IN  /\ caller \notin DOMAIN sessions
        /\ sessions' = [c \in DOMAIN sessions \cup {caller} |->
                           IF c = caller THEN server ELSE sessions[c]]
        /\ servers' = [m \in DOMAIN servers \cup {server} |->
                          IF m = server
                          THEN [userToken |-> token, currentUserToken |-> token]
                          ELSE servers[m]]
        /\ inFlight' = [c \in DOMAIN inFlight \cup {caller} |->
                           IF c = caller THEN 0 ELSE inFlight[c]]
        /\ UNCHANGED <<sessionCalls, registryVars, allocatorVars>>

\* MCPServer.setUserToken on the caller's server
SessionSetUserToken(caller, token) ==
    /\ caller \in DOMAIN sessions
    /\ servers' = [servers EXCEPT ![sessions[caller]] =
                       [userToken |-> token, currentUserToken |-> token]]
    /\ UNCHANGED <<sessions, sessionCalls, inFlight, registryVars, allocatorVars>>

\* execute-sap-operation on the caller's server, up to the await of the
\* transport call: the client's token is set and read before the handler
\* suspends
SessionExecute(caller, args, outcome) ==
    /\ caller \in DOMAIN sessions
    /\ inFlight[caller] < MaxInFlight
    /\ LET server == servers[sessions[caller]]
           run == executeEntityOperation(discoveredServices, server.userToken,
                                         server.currentUserToken, args, outcome)
       IN  /\ servers' = [servers EXCEPT ![sessions[caller]].currentUserToken =
                                             run.currentUserToken]
           /\ sessionCalls' = sessionCalls \cup
                  { [caller |-> caller, token |-> run.calls[i].token] :
                      i \in 1..Len(run.calls) }
           /\ inFlight' = [inFlight EXCEPT ![caller] =
                               IF Len(run.calls) > 0 THEN @ + 1 ELSE @]
    /\ UNCHANGED <<sessions, registryVars, allocatorVars>>

\* the transport answers one waiting execute call, which returns its result
SessionReturn(caller) ==
    /\ caller \in DOMAIN sessions
    /\ inFlight[caller] > 0
    /\ inFlight' = [inFlight EXCEPT ![caller] = @ - 1]
    /\ UNCHANGED <<sessions, servers, sessionCalls, registryVars, allocatorVars>>

CreateMCPServerCall ==
    \E caller \in Callers : \E token \in TokensOf(caller) : CreateMCPServer(caller, token)

SessionSetUserTokenCall ==
    \E caller \in Callers : \E token \in TokensOf(caller) : SessionSetUserToken(caller, token)

SessionExecuteCall ==
    \E caller \in Callers : \E args \in SessionRequests, outcome \in TransportOutcomes :
        SessionExecute(caller, args, outcome)

SessionReturnCall == \E caller \in Callers : SessionReturn(caller)

NextSessions ==
    \/ CreateMCPServerCall
    \/ SessionSetUserTokenCall
    \/ SessionExecuteCall
    \/ SessionReturnCall

SpecSessions == InitSessionsSpec /\ [][NextSessions]_vars

-----------------------------------------------------------------------------
(* The categorizer on its own: one service per behaviour, its id, title and
   description drawn from names that hit one, several or none of the
   keyword lists *)

CategorizerIds ==
    {"API_BUSINESS_PARTNER", "SALES_SRV", "ZHR_EMPLOYEE_CDS", "API_MISC", "GL_ACCOUNT_SRV",
     "PO_VENDOR", "MM_STOCK"}

CategorizerTitles ==
    {"Sales Orders", "Customer Invoices", "Human Resources", "misc Things",
     "Material Documents", "Payment Runs"}

CategorizerDescriptions == {"", "Sales reporting", "OData service"}

\* the constructor before its call of categorizeServices: the map is empty
InitCategorize ==
    /\ discoveredServices \in
           { <<ODataService(id, title, description, "/sap/opu/odata/sap/X/", <<>>)>> :
               id \in CategorizerIds, title \in CategorizerTitles,
               description \in CategorizerDescriptions }
    /\ serviceCategories = <<>>
    /\ userToken = Undefined
    /\ currentUserToken = Undefined
    /\ request = [tool |-> "constructor"]
    /\ response = NoResponse
    /\ transportCalls = <<>>
    /\ InitAllocator
    /\ InitSessions

\* this.categorizeServices(), called by the constructor
Categorize ==
    /\ request.tool = "constructor"
    /\ response = NoResponse
    /\ serviceCategories' = categorizeServices(discoveredServices)
    /\ response' = [kind |-> "constructed"]
    /\ UNCHANGED <<discoveredServices, userToken, currentUserToken, request, transportCalls>>
    /\ UNCHANGED <<allocatorVars, sessionVars>>

NextCategorize == Categorize

SpecCategorize == InitCategorize /\ [][NextCategorize]_vars

-----------------------------------------------------------------------------
(* The tool-name allocator on its own: a sequence of generateShortToolName
   calls on one SAPToolRegistry *)

\* the operation codes the register...Tool methods pass
AllocatorOperations == {"r", "rs"}

\* two long service ids with the same abbreviation, and a short one that
\* equals that abbreviation
AllocatorServiceIds ==
    {"ZC_SALESORDER_MANAGEMENT_EXTENDED_PROCESSING_SRV",
     "ZI_SALESORDER_ARCHIVE_AND_RETENTION_PROCESSING_SRV_0001",
     "SALESORDER_P"}

AllocatorEntityNames == {"SalesOrderHeaderExtensionItem", "SOHEI"}

AllocateRequests ==
    [operation : AllocatorOperations, serviceId : AllocatorServiceIds,
     entityName : AllocatorEntityNames]

InitAllocate ==
    /\ discoveredServices = <<>>
    /\ serviceCategories = categorizeServices(<<>>)
    /\ userToken = Undefined
    /\ currentUserToken = Undefined
    /\ request = NoRequest
    /\ response = NoResponse
    /\ transportCalls = <<>>
    /\ InitAllocator
    /\ InitSessions

\* an insertion that is left out
addShortNameSkipped(used, name) == used

\* this.usedShortNames.add(finalName)
addShortName(used, name) == used \cup {name}

\* a mapping that keeps only its latest entry
setMappingOnly(mapping, name, longForm) == (name :> longForm)

\* this.toolNameMapping.set(finalName, `${operation}--${serviceId}--${entityName}`)
setMapping(mapping, name, longForm) ==
    [n \in DOMAIN mapping \cup {name} |-> IF n = name THEN longForm ELSE mapping[n]]

\* one call of generateShortToolName(operation, serviceId, entityName); the
\* call is synchronous, so no other call runs between its collision check
\* and its insertion
Allocate(args) ==
    LET result == generateShortToolName(usedShortNames, args.operation, args.serviceId,
                                        args.entityName)
    IN  /\ usedShortNames' = IF result.registered
                             THEN addShortName(usedShortNames, result.name)
                             ELSE usedShortNames
        /\ toolNameMapping' =
               IF result.registered
               THEN setMapping(toolNameMapping, result.name,
                               args.operation \o "--" \o args.serviceId
                                   \o "--" \o args.entityName)
               ELSE toolNameMapping
        /\ allocations' = Append(allocations,
                                 [operation |-> args.operation, serviceId |-> args.serviceId,
                                  entityName |-> args.entityName, name |-> result.name,
                                  candidate |-> result.candidate,
                                  registered |-> result.registered,
                                  usedBefore |-> usedShortNames])
        /\ UNCHANGED <<registryVars, suffixLoop, sessionVars>>

AllocateCall ==
    /\ Len(allocations) < MaxAllocations
    /\ \E args \in AllocateRequests : Allocate(args)

NextAllocate == AllocateCall

SpecAllocate == InitAllocate /\ [][NextAllocate]_vars

-----------------------------------------------------------------------------
(* generateShortToolName, one iteration of its while loop at a time *)

\* the candidate built before the loop: the abbreviated name, or the hashed
\* name when the abbreviated one has more than 60 characters
shortCandidate(operation, serviceId, entityName) ==
    LET abbreviated == operation \o "-" \o abbreviateServiceId(serviceId)
                           \o "-" \o abbreviateEntityName(entityName)
    IN  IF Len(abbreviated) > 60
        THEN operation \o "-" \o getShortHash(serviceId, 8)
                 \o "-" \o getShortHash(entityName, 8)
        ELSE abbreviated

\* the call up to the while loop: a name of at most 64 characters is
\* returned at once, otherwise finalName = candidate and counter = 1
StartAllocate(args) ==
    LET verbatim == args.operation \o "-" \o args.serviceId \o "-" \o args.entityName
        candidate == shortCandidate(args.operation, args.serviceId, args.entityName)
    IN  /\ suffixLoop.pc = "idle"
        /\ IF Len(verbatim) <= 64
           THEN /\ allocations' = Append(allocations,
                                         [operation |-> args.operation,
                                          serviceId |-> args.serviceId,
                                          entityName |-> args.entityName,
                                          name |-> verbatim, candidate |-> verbatim,
                                          registered |-> FALSE,
                                          usedBefore |-> usedShortNames])
                /\ UNCHANGED suffixLoop
           ELSE /\ suffixLoop' = [pc |-> "loop", args |-> args, candidate |-> candidate,
                                  finalName |-> candidate, counter |-> 1]
                /\ UNCHANGED allocations
        /\ UNCHANGED <<registryVars, usedShortNames, toolNameMapping, sessionVars>>

\* a counter that is never incremented
counterKept(counter) == counter

\* counter++
counterIncremented(counter) == counter + 1

\* one iteration: the name is used, so the next suffix is tried
LoopStep ==
    /\ suffixLoop.pc = "loop"
    /\ suffixLoop.finalName \in usedShortNames
    /\ suffixLoop' = [suffixLoop EXCEPT
                          !.finalName = SuffixedName(suffixLoop.candidate, suffixLoop.counter),
                          !.counter = counterIncremented(suffixLoop.counter)]
    /\ UNCHANGED <<registryVars, usedShortNames, toolNameMapping, allocations, sessionVars>>

\* the loop ends on an unused name, which is recorded and returned
LoopExit ==
    /\ suffixLoop.pc = "loop"
    /\ suffixLoop.finalName \notin usedShortNames
    /\ usedShortNames' = addShortName(usedShortNames, suffixLoop.finalName)
    /\ toolNameMapping' = setMapping(toolNameMapping, suffixLoop.finalName,
                                     suffixLoop.args.operation \o "--"
                                         \o suffixLoop.args.serviceId \o "--"
                                         \o suffixLoop.args.entityName)
    /\ allocations' = Append(allocations,
                             [operation |-> suffixLoop.args.operation,
                              serviceId |-> suffixLoop.args.serviceId,
                              entityName |-> suffixLoop.args.entityName,
                              name |-> suffixLoop.finalName,
                              candidate |-> suffixLoop.candidate,
                              registered |-> TRUE,
                              usedBefore |-> usedShortNames])
    /\ suffixLoop' = NoLoop
    /\ UNCHANGED <<registryVars, sessionVars>>

StartAllocateCall ==
    /\ Len(allocations) < MaxAllocations
    /\ \E args \in AllocateRequests : StartAllocate(args)

NextSuffixLoop == StartAllocateCall \/ LoopStep \/ LoopExit

\* the call is synchronous code on one thread: once inside the loop the
\* engine keeps executing it, so an enabled iteration or exit is taken
SpecSuffixLoop ==
    /\ InitAllocate
    /\ [][NextSuffixLoop]_vars
    /\ WF_vars(LoopStep)
    /\ WF_vars(LoopExit)

-----------------------------------------------------------------------------
(* formatKeyValue on its own: one key property and one value per behaviour *)

InitFormat ==
    /\ discoveredServices = <<>>
    /\ serviceCategories = categorizeServices(<<>>)
    /\ userToken = Undefined
    /\ currentUserToken = Undefined
    /\ request \in FormatRequests
    /\ response = NoResponse
    /\ transportCalls = <<>>
    /\ InitAllocator
    /\ InitSessions

\* this.formatKeyValue(keyProp, value)
FormatKey ==
    /\ request.tool = "formatKeyValue"
    /\ response = NoResponse
    /\ response' = formatKeyValue(request.keyProperty, request.value)
    /\ UNCHANGED <<discoveredServices, serviceCategories, userToken, currentUserToken,
                   request, transportCalls>>
    /\ UNCHANGED <<allocatorVars, sessionVars>>

NextFormat == FormatKey

SpecFormat == InitFormat /\ [][NextFormat]_vars

-----------------------------------------------------------------------------
(* What an execute call asked for, read from the request and the catalog *)

IsExecute == request.tool = "execute-sap-operation"

RequestedOperation == ToLowerCase(request.operation)

RequestedParameters ==
    IF request.parameters = Undefined THEN EmptyObject ELSE request.parameters

OperationKnown ==
    RequestedOperation \in {"read", "read-single", "create", "update", "delete"}

ServiceKnown ==
    \E i \in 1..Len(discoveredServices) : discoveredServices[i].id = request.serviceId

RequestedService ==
    discoveredServices[CHOOSE i \in 1..Len(discoveredServices) :
                           /\ discoveredServices[i].id = request.serviceId
                           /\ \A j \in 1..(i - 1) : discoveredServices[j].id # request.serviceId]

EntityKnown ==
    /\ ServiceKnown
    /\ \E j \in 1..Len(EntityTypesOf(RequestedService)) :
           EntityTypesOf(RequestedService)[j].name = request.entityName

RequestedEntity ==
    LET types == EntityTypesOf(RequestedService)
    IN  types[CHOOSE j \in 1..Len(types) :
                  /\ types[j].name = request.entityName
                  /\ \A k \in 1..(j - 1) : types[k].name # request.entityName]

\* the call names a valid operation on an entity of the catalog
Resolved == IsExecute /\ OperationKnown /\ EntityKnown

\* the capability flag the requested operation needs is set (read needs none)
CapabilityGranted ==
    CASE RequestedOperation = "create" -> RequestedEntity.creatable
      [] RequestedOperation = "update" -> RequestedEntity.updatable
      [] RequestedOperation = "delete" -> RequestedEntity.deletable
      [] OTHER -> TRUE

\* the declared key properties the parameters object has no field for
AbsentKeys ==
    { k \in { RequestedEntity.keys[i] : i \in 1..Len(RequestedEntity.keys) } :
        k \notin DOMAIN RequestedParameters }

\* the results the dispatcher gives for its own validation errors
ValidationKinds ==
    {"InvalidOperation", "ServiceNotFound", "EntityNotFound", "MissingKey", "KeyNull",
     "CapabilityDenied"}

ValidationFailure == IsExecute /\ response.isError /\ response.kind \in ValidationKinds

-----------------------------------------------------------------------------
(* Properties of the operation dispatcher *)

\* C1: an execute call that ends in a validation failure (invalid operation,
\* unknown service, unknown entity, missing or null key, capability denied)
\* has issued no transport call.
C1_NoTransportOnValidationFailure ==
    ValidationFailure => transportCalls = <<>>

\* a create on an entity that is not creatable was refused
C1_Witness ==
    /\ Resolved
    /\ RequestedOperation = "create"
    /\ ~RequestedEntity.creatable
    /\ response.kind = "CapabilityDenied"
    /\ transportCalls = <<>>

\* C2: the error an execute call reports is the one of the first failing step
\* in the order operation name, service, entity, capability, key: an invalid
\* operation wins over an unknown service, an unknown service over an unknown
\* entity, and a denied capability over missing key properties.
C2_FirstFailingStepReported ==
    IsExecute =>
        IF ~OperationKnown THEN response.kind = "InvalidOperation"
        ELSE IF ~ServiceKnown THEN response.kind = "ServiceNotFound"
        ELSE IF ~EntityKnown THEN response.kind = "EntityNotFound"
        ELSE IF ~CapabilityGranted THEN response.kind = "CapabilityDenied"
        ELSE IF RequestedOperation # "read" /\ RequestedOperation # "create"
                /\ AbsentKeys # {}
        THEN response.kind = "MissingKey"
        ELSE response.kind \notin
                 {"InvalidOperation", "ServiceNotFound", "EntityNotFound",
                  "CapabilityDenied", "MissingKey"}

\* an update without its key on an entity that is not updatable
C2_Witness ==
    /\ Resolved
    /\ RequestedOperation = "update"
    /\ ~RequestedEntity.updatable
    /\ AbsentKeys # {}
    /\ response.kind = "CapabilityDenied"

\* C3: create, update and delete on an entity whose creatable, updatable or
\* deletable flag is false return CapabilityDenied, whatever the parameters.
C3_CapabilityDenied ==
    (Resolved /\ ~CapabilityGranted) =>
        /\ response.isError
        /\ response.kind = "CapabilityDenied"
        /\ response.subject = RequestedOperation

\* a delete with a complete key on an entity that is not deletable
C3_Witness ==
    /\ Resolved
    /\ RequestedOperation = "delete"
    /\ ~RequestedEntity.deletable
    /\ AbsentKeys = {}
    /\ \A k \in DOMAIN RequestedParameters :
           RequestedParameters[k] \notin {Null, Undefined}
    /\ response.kind = "CapabilityDenied"

KeyExpressionInOrder(names) ==
    LET entity == RequestedEntity
        typeOf(k) == (CHOOSE p \in { entity.properties[i] : i \in 1..Len(entity.properties) } :
                          p.name = k)
        part(k) == formatKeyValue(typeOf(k), RequestedParameters[k]).value
    IN  IF Len(names) = 1 THEN part(names[1])
        ELSE Join([i \in 1..Len(names) |-> names[i] \o "=" \o part(names[i])], ",")

\* the key property names as the property list orders them
KeyNamesInPropertyOrder ==
    LET keyProps == SelectSeq(RequestedEntity.properties,
                              LAMBDA p : p.name \in { RequestedEntity.keys[i] :
                                                        i \in 1..Len(RequestedEntity.keys) })
    IN  [i \in 1..Len(keyProps) |-> keyProps[i].name]

\* a keyed operation on a composite-key entity reached the transport
CompositeKeySent ==
    /\ Resolved
    /\ RequestedOperation \in {"read-single", "update", "delete"}
    /\ Len(RequestedEntity.keys) > 1
    /\ transportCalls # <<>>

\* C5 as stated: the key expression of a composite key lists the name=value
\* pairs in the order of the entity's key list, also when the property list
\* orders the key properties differently.
C5_KeyListOrder ==
    CompositeKeySent => transportCalls[1].key = KeyExpressionInOrder(RequestedEntity.keys)

\* C5 as amended: the key expression of a composite key lists the name=value
\* pairs in the order in which the key properties appear in the entity's
\* property list.
C5_PropertyListOrder ==
    CompositeKeySent => transportCalls[1].key = KeyExpressionInOrder(KeyNamesInPropertyOrder)

\* a composite key was sent for an entity whose two orders differ
C5_Witness ==
    /\ CompositeKeySent
    /\ KeyNamesInPropertyOrder # RequestedEntity.keys
    /\ transportCalls[1].key = "Pos=42,Id='O''Brien'"

\* a read reached the transport
ReadSent ==
    /\ Resolved
    /\ RequestedOperation = "read"
    /\ transportCalls # <<>>

\* C7: in the query options a read passes to the transport, $top is present
\* only for a positive top, $skip exactly for a non-negative skip (0 included,
\* negative values excluded), and $filter, $select, $expand, $orderby only
\* when non-empty.
C7_QueryOptionsInRange ==
    ReadSent =>
        LET sent == transportCalls[1].queryOptions
            top == Get(request.options, "topNumber")
            skip == Get(request.options, "skipNumber")
            textOf == ("$filter" :> "filterString") @@ ("$select" :> "selectString")
                          @@ ("$expand" :> "expandString") @@ ("$orderby" :> "orderbyString")
        IN  /\ "$top" \in DOMAIN sent => (top.t = "number" /\ top.n > 0)
            /\ "$skip" \in DOMAIN sent <=> (skip.t = "number" /\ skip.n >= 0)
            /\ \A q \in DOMAIN textOf :
                   q \in DOMAIN sent =>
                       (Get(request.options, textOf[q]).t = "string"
                        /\ Get(request.options, textOf[q]).s # "")

\* a create reached the transport
CreateSent ==
    /\ Resolved
    /\ RequestedOperation = "create"
    /\ transportCalls # <<>>
    /\ transportCalls[1].op = "createEntity"

DeclaredNames(entity) == { entity.properties[i].name : i \in 1..Len(entity.properties) }

KeyNames(entity) == { entity.keys[i] : i \in 1..Len(entity.keys) }

ReservedNames == {"__metadata", "__deferred", "__key", "__uri"}

\* C8: every field of the payload handed to createEntity is a declared
\* property that is no key property and no reserved name and has a defined
\* value, taken from the input; a create on a creatable entity reaches the
\* transport whatever unknown fields the input holds.
C8_CreatePayloadClean ==
    /\ CreateSent =>
           \A f \in DOMAIN transportCalls[1].data :
               /\ f \in DeclaredNames(RequestedEntity)
               /\ f \notin KeyNames(RequestedEntity)
               /\ f \notin ReservedNames
               /\ transportCalls[1].data[f] # Undefined
               /\ f \in DOMAIN RequestedParameters
               /\ transportCalls[1].data[f] = RequestedParameters[f]
    /\ (Resolved /\ RequestedOperation = "create" /\ RequestedEntity.creatable) =>
           (CreateSent /\ response.kind \notin ValidationKinds)

\* a create whose input held a key field and an unknown field was sent
C8_Witness ==
    /\ CreateSent
    /\ DOMAIN RequestedParameters = {"Id", "Bogus"}
    /\ transportCalls[1].data = EmptyObject
    /\ ~response.isError

\* an update reached the transport
UpdateSent ==
    /\ Resolved
    /\ RequestedOperation = "update"
    /\ transportCalls # <<>>
    /\ transportCalls[1].op = "updateEntity"

\* C9: an update that reaches the transport carries the key expression built
\* from the key fields of parameters, and its payload is parameters without
\* the key fields, restricted to declared properties with defined values and
\* non-reserved names; no key property appears in the payload.
C9_UpdatePayloadWithoutKeys ==
    UpdateSent =>
        LET payload == transportCalls[1].data
            expected == { f \in DOMAIN RequestedParameters :
                            /\ f \notin KeyNames(RequestedEntity)
                            /\ f \in DeclaredNames(RequestedEntity)
                            /\ f \notin ReservedNames
                            /\ RequestedParameters[f] # Undefined }
        IN  /\ DOMAIN payload = expected
            /\ \A f \in expected : payload[f] = RequestedParameters[f]
            /\ DOMAIN payload \cap KeyNames(RequestedEntity) = {}
            /\ transportCalls[1].key = KeyExpressionInOrder(KeyNamesInPropertyOrder)

\* an update with a key field and a payload field was sent
C9_Witness ==
    /\ UpdateSent
    /\ DOMAIN RequestedParameters = {"Id", "Note"}
    /\ DOMAIN transportCalls[1].data = {"Note"}
    /\ transportCalls[1].key = "'O''Brien'"

-----------------------------------------------------------------------------
(* Properties of key-value formatting *)

\* the type families of the formatting rule.  The date/time family is the
\* types whose name holds "date"; Edm.Time does not and is quoted as a string.
GuidTypes == {"Edm.Guid", "guid"}

NumericTypes == {"Edm.Int16", "Edm.Int32", "Edm.Int64", "Edm.Decimal", "Edm.Double",
                 "int", "float"}

DateTimeTypes == {"Edm.DateTime", "Edm.DateTimeOffset", "Edm.Date", "datetime"}

\* the text v of a key value
TextOfValue ==
    [v \in KeyValueInputs \ {Null, Undefined} |->
        CASE v = JsNumber(42) -> "42"
          [] v = JsNumber(-7) -> "-7"
          [] v = JsNumber(0) -> "0"
          [] v = JsBoolean(TRUE) -> "true"
          [] OTHER -> v.s]

\* reads a quoted literal's body back: a doubled quote stands for one quote,
\* a single quote on its own cannot be read
RECURSIVE Unescape(_)
Unescape(body) ==
    IF body = "" THEN <<"">>
    ELSE IF SubSeq(body, 1, 1) # "'"
    THEN LET rest == Unescape(SubSeq(body, 2, Len(body)))
         IN  IF rest = <<>> THEN <<>> ELSE <<SubSeq(body, 1, 1) \o rest[1]>>
    ELSE IF Len(body) >= 2 /\ SubSeq(body, 2, 2) = "'"
    THEN LET rest == Unescape(SubSeq(body, 3, Len(body)))
         IN  IF rest = <<>> THEN <<>> ELSE <<"'" \o rest[1]>>
    ELSE <<>>

Formatted ==
    /\ request.tool = "formatKeyValue"
    /\ response # NoResponse
    /\ request.value \notin {Null, Undefined}

-----------------------------------------------------------------------------
(* Properties of the discovery engine *)

IsDiscover == request.tool = "discover-sap-data"

\* the services the category filter of the answered call lets through
ServicesInCategory ==
    { i \in 1..Len(discoveredServices) :
        \/ response.category = "all"
        \/ Contains(serviceCategories[discoveredServices[i].id], response.category) }

-----------------------------------------------------------------------------
(* Properties of the discovery engine *)

\* the lower-cased query of the answered call, empty when none was given
RequestedQuery ==
    IF Truthy(request.query) THEN ToLowerCase(request.query.s) ELSE ""

\* the limit of the answered call
RequestedLimit ==
    IF Truthy(request.limit) THEN request.limit.n ELSE 20

EntityNamesOf(service) ==
    [j \in 1..Len(EntityTypesOf(service)) |-> EntityTypesOf(service)[j].name]

IdHit(service, query) == Includes(ToLowerCase(service.id), query)

TitleHit(service, query) == Includes(ToLowerCase(service.title), query)

\* the entity names of a service that contain the query
EntityHits(service, query) ==
    { j \in 1..Len(EntityTypesOf(service)) :
        Includes(ToLowerCase(EntityTypesOf(service)[j].name), query) }

\* the query matches a service id, a service title or an entity name within
\* the requested category
RealMatchExists ==
    \E i \in ServicesInCategory :
        \/ IdHit(discoveredServices[i], RequestedQuery)
        \/ TitleHit(discoveredServices[i], RequestedQuery)
        \/ EntityHits(discoveredServices[i], RequestedQuery) # {}

\* the answer discover gives to the same call with an empty query
EmptyQueryAnswer ==
    discoverServicesAndEntitiesMinimal(discoveredServices, serviceCategories,
                                       [request EXCEPT !.query = JsString("")])

ListsCatalog ==
    /\ IsDiscover
    /\ RequestedQuery = ""
    /\ response.category = "all"
    /\ Len(discoveredServices) >= 1

\* the returned matches are service matches of distinct services of the
\* catalog, each with its full list of entity names
ServiceListing ==
    /\ \A k \in 1..Len(response.matches) :
           /\ response.matches[k].type = "service"
           /\ \E i \in 1..Len(discoveredServices) :
                  /\ response.matches[k].service.serviceId = discoveredServices[i].id
                  /\ response.matches[k].service.serviceName = discoveredServices[i].title
                  /\ response.matches[k].entities = EntityNamesOf(discoveredServices[i])
    /\ \A k, l \in 1..Len(response.matches) :
           k # l => response.matches[k].service.serviceId # response.matches[l].service.serviceId

TitlesAscending ==
    \A k, l \in 1..Len(response.matches) :
        k < l => ~LocaleLess(response.matches[l].service.serviceName,
                             response.matches[k].service.serviceName)

\* C12 as stated: for a non-empty catalog, discover with an empty query and
\* category all returns every service of the catalog, each with its full
\* entity-name list, in ascending order of title.
C12_ListsEveryService ==
    ListsCatalog =>
        /\ ServiceListing
        /\ TitlesAscending
        /\ Len(response.matches) = Len(discoveredServices)

\* C12 as amended: for a non-empty catalog, discover with an empty query and
\* category all finds every service of the catalog (totalFound) and returns
\* the first `limit` of them in ascending order of title, each with its full
\* entity-name list; it returns every service when the catalog holds at most
\* `limit` services.
C12_ListsFirstServices ==
    ListsCatalog =>
        /\ ServiceListing
        /\ TitlesAscending
        /\ response.totalFound = Len(discoveredServices)
        /\ Len(response.matches) = IF Len(discoveredServices) <= RequestedLimit
                                   THEN Len(discoveredServices) ELSE RequestedLimit
        /\ \A i \in 1..Len(discoveredServices) :
               \/ \E k \in 1..Len(response.matches) :
                      response.matches[k].service.serviceId = discoveredServices[i].id
               \/ \A k \in 1..Len(response.matches) :
                      ~LocaleLess(discoveredServices[i].title,
                                  response.matches[k].service.serviceName)

\* the three services were listed by title, not in catalog order
C12_Witness ==
    /\ ListsCatalog
    /\ request.limit = Undefined
    /\ Len(response.matches) = 3
    /\ response.matches[1].service.serviceId = "ZHR_EMPLOYEE_CDS"
    /\ response.matches[3].service.serviceId = "SALES_SRV"
    /\ response.matches[3].entities = <<"SalesOrderHeader", "OrderItem">>

\* the query the returned matches were searched with: the fallback searches
\* with an empty query
SearchedQuery == IF response.returnedAllServices THEN "" ELSE RequestedQuery

\* the score of the service match a service yields, 0 when it yields none
ExpectedServiceScore(service, query) ==
    IF query = "" THEN 50
    ELSE IF IdHit(service, query) THEN 90
    ELSE IF TitleHit(service, query) THEN 85
    ELSE 0

\* positions of the returned matches of one type that belong to a service
MatchesFor(service, type) ==
    { k \in 1..Len(response.matches) :
        /\ response.matches[k].type = type
        /\ response.matches[k].service.serviceId = service.id }

Untruncated == response.showing = response.totalFound

\* C13: a service in the category filter yields a service match with score
\* 0.9 if its lower-cased id contains the lower-cased query, otherwise 0.85 if
\* its lower-cased title contains it, otherwise none; each of its entities
\* whose lower-cased name contains the query yields an entity match with score
\* 0.95 whether or not the service matched; for an empty query every service
\* in the filter yields one service match with score 0.5 and no entity match.
\* Every returned match is one of these, and all of them are returned when
\* the limit does not truncate the list.
C13_MatchScores ==
    IsDiscover =>
        /\ \A k \in 1..Len(response.matches) :
               \E i \in ServicesInCategory :
                   LET m == response.matches[k]
                       service == discoveredServices[i]
                   IN  /\ m.service.serviceId = service.id
                       /\ \/ /\ m.type = "service"
                             /\ m.score = ExpectedServiceScore(service, SearchedQuery)
                          \/ /\ m.type = "entity"
                             /\ SearchedQuery # ""
                             /\ m.score = 95
                             /\ \E j \in EntityHits(service, SearchedQuery) :
                                    EntityTypesOf(service)[j].name = m.entity
        /\ Untruncated =>
               \A i \in ServicesInCategory :
                   LET service == discoveredServices[i]
                   IN  /\ Cardinality(MatchesFor(service, "service")) =
                              IF ExpectedServiceScore(service, SearchedQuery) > 0 THEN 1 ELSE 0
                       /\ Cardinality(MatchesFor(service, "entity")) =
                              IF SearchedQuery = "" THEN 0
                              ELSE Cardinality(EntityHits(service, SearchedQuery))
        /\ \A i \in 1..Len(discoveredServices) :
               i \notin ServicesInCategory =>
                   /\ MatchesFor(discoveredServices[i], "service") = {}
                   /\ MatchesFor(discoveredServices[i], "entity") = {}

\* the query item matched an entity of a service that did not match itself
C13_Witness ==
    /\ IsDiscover
    /\ RequestedQuery = "item"
    /\ ~response.returnedAllServices
    /\ Len(response.matches) = 1
    /\ response.matches[1].type = "entity"
    /\ response.matches[1].score = 95
    /\ response.matches[1].entity = "OrderItem"
    /\ ExpectedServiceScore(discoveredServices[1], "item") = 0

\* a non-empty query found real matches
RealMatches == IsDiscover /\ RequestedQuery # "" /\ ~response.returnedAllServices

\* C14: when a non-empty query has real matches the returned matches are in
\* non-increasing order of score, so every entity match precedes every
\* service match; when the fallback is used the returned service matches are
\* in ascending order of display title.
C14_Ordering ==
    /\ RealMatches =>
           \A k, l \in 1..Len(response.matches) :
               k < l =>
                   /\ response.matches[k].score >= response.matches[l].score
                   /\ ~(response.matches[k].type = "service"
                        /\ response.matches[l].type = "entity")
    /\ (IsDiscover /\ response.returnedAllServices) =>
           /\ \A k \in 1..Len(response.matches) : response.matches[k].type = "service"
           /\ TitlesAscending

\* the query order matched the title of SALES_SRV and two of its entities:
\* the search finds the service first and the answer lists it last
C14_Witness ==
    /\ RealMatches
    /\ RequestedQuery = "order"
    /\ Len(response.matches) = 3
    /\ response.matches[1].type = "entity"
    /\ response.matches[2].type = "entity"
    /\ response.matches[3].type = "service"
    /\ response.matches[3].score = 85

\* the matches the search of the answered call yields, as pairs of a service
\* position and 0 for its service match or the position of a matching entity
ExpectedMatches ==
    { <<i, 0>> : i \in { i \in ServicesInCategory :
                           ExpectedServiceScore(discoveredServices[i], SearchedQuery) > 0 } }
    \cup
    UNION { { <<i, j>> : j \in IF SearchedQuery = "" THEN {}
                               ELSE EntityHits(discoveredServices[i], SearchedQuery) } :
              i \in ServicesInCategory }

\* the answer to the same call with the largest limit
UntruncatedAnswer ==
    discoverServicesAndEntitiesMinimal(discoveredServices, serviceCategories,
                                       [request EXCEPT !.limit = JsNumber(50)])

Min(a, b) == IF a <= b THEN a ELSE b

\* C15: discover reports totalFound as the number of matches before
\* truncation and showing as the number returned, showing is the smaller of
\* totalFound and the limit (the caller's value from 1 to 50, or 20 when none
\* is given), and the returned matches are the first `limit` matches of the
\* sorted list.
C15_Counts ==
    IsDiscover =>
        /\ response.totalFound = Cardinality(ExpectedMatches)
        /\ response.showing = Len(response.matches)
        /\ response.showing = Min(response.totalFound, RequestedLimit)
        /\ LET sorted == UntruncatedAnswer.matches
           IN  /\ Len(sorted) = response.totalFound
               /\ response.matches = SubSeq(sorted, 1, response.showing)

\* no limit was given and more than 20 services were found: 20 are returned
C15_Witness ==
    /\ IsDiscover
    /\ request.limit = Undefined
    /\ response.totalFound > 20
    /\ response.showing = 20
    /\ Len(response.matches) = 20

-----------------------------------------------------------------------------
(* Properties of the categorizer *)

\* construction is over: the category map has been filled
Constructed == response # NoResponse \/ request = NoRequest

\* the id, title and description of the service hit none of the keyword lists
NoKeyword(service) ==
    \A r \in 1..Len(CategoryRules) :
        /\ \A w \in CategoryRules[r].id : ~Includes(ToLowerCase(service.id), w)
        /\ \A w \in CategoryRules[r].title : ~Includes(ToLowerCase(service.title), w)
        /\ \A w \in CategoryRules[r].desc : ~Includes(ToLowerCase(service.description), w)

\* C16: after construction every service of the catalog has a non-empty
\* category set; a service whose id, title and description match none of the
\* keyword lists has exactly the set {all}, and the category all never
\* appears in a set together with another category.
C16_Categories ==
    Constructed =>
        \A i \in 1..Len(discoveredServices) :
            LET service == discoveredServices[i]
            IN  /\ service.id \in DOMAIN serviceCategories
                /\ LET categories == serviceCategories[service.id]
                   IN  /\ categories # <<>>
                       /\ NoKeyword(service) => categories = <<"all">>
                       /\ Contains(categories, "all") => categories = <<"all">>
                       /\ \A k \in 1..Len(categories) : Contains(validCategories, categories[k])

\* a service that hits no keyword list was filed under all alone
C16_Witness ==
    /\ Constructed
    /\ request.tool = "constructor"
    /\ Len(discoveredServices) = 1
    /\ NoKeyword(discoveredServices[1])
    /\ serviceCategories[discoveredServices[1].id] = <<"all">>

-----------------------------------------------------------------------------
(* Properties of the metadata resolver *)

IsDescribe == request.tool = "get-entity-metadata"

NotFound == response.isError /\ response.kind \in {"ServiceNotFound", "EntityNotFound"}

\* the returned schema marks exactly the properties of the key list as keys
SchemaOfRequestedEntity ==
    /\ ~response.isError
    /\ response.kind = "metadata"
    /\ response.entity.name = request.entityName
    /\ response.entity.keyProperties = RequestedEntity.keys
    /\ Len(response.properties) = Len(RequestedEntity.properties)
    /\ \A i \in 1..Len(response.properties) :
           /\ response.properties[i].name = RequestedEntity.properties[i].name
           /\ response.properties[i].isKey <=>
                  (\E k \in 1..Len(RequestedEntity.keys) :
                       RequestedEntity.keys[k] = response.properties[i].name)

\* what describe answers once both arguments are taken as names to look up
DescribeAnswer ==
    /\ NotFound <=> (~ServiceKnown \/ ~EntityKnown)
    /\ ~ServiceKnown => response.kind = "ServiceNotFound"
    /\ (ServiceKnown /\ ~EntityKnown) =>
           /\ response.kind = "EntityNotFound"
           /\ response.names = EntityNamesOf(RequestedService)
    /\ (ServiceKnown /\ EntityKnown) => SchemaOfRequestedEntity

\* C17 as stated: describe returns a NotFound error exactly when no service
\* has the id or the service has no entity of the name; in the second case
\* the error lists the names of all entities of the service; otherwise it
\* returns the schema, where isKey is true exactly for the names of the key
\* list.
C17_NotFoundExactly == IsDescribe => DescribeAnswer

\* C17 as amended: the same for a non-empty service id and a non-empty entity
\* name; when either is the empty string describe returns the error that both
\* arguments are required, which names no service and lists no entity.
C17_NotFoundExactlyForNames ==
    IsDescribe =>
        IF request.serviceId = "" \/ request.entityName = ""
        THEN response.isError /\ response.kind = "Required" /\ response.names = <<>>
        ELSE DescribeAnswer

\* an unknown entity of SALES_SRV was answered with the two entities it has
C17_Witness ==
    /\ IsDescribe
    /\ request.serviceId = "SALES_SRV"
    /\ request.entityName = "Nope"
    /\ response.kind = "EntityNotFound"
    /\ response.names = <<"SalesOrderHeader", "OrderItem">>

-----------------------------------------------------------------------------
(* Services whose metadata is null *)

\* the call names a service of the catalog whose metadata is null
OnUnresolvedService ==
    /\ ServiceKnown
    /\ RequestedService.metadata = <<>>

\* the structured error of an unknown entity: returned, not thrown and caught
StructuredEntityNotFound ==
    /\ response.isError
    /\ response.kind = "EntityNotFound"
    /\ ~response.caught

\* discover lists a service without metadata with entity count 0 and an empty
\* entity list, and returns no entity match for it
ListedWithoutEntities ==
    \A k \in 1..Len(response.matches) :
        \A i \in 1..Len(discoveredServices) :
            (/\ discoveredServices[i].metadata = <<>>
             /\ response.matches[k].service.serviceId = discoveredServices[i].id) =>
                /\ response.matches[k].type = "service"
                /\ response.matches[k].service.entityCount = 0
                /\ response.matches[k].entities = <<>>

\* C18 as stated: a service whose metadata is null is treated as a service
\* with zero entities in all three stages: discover lists it with entity
\* count 0 and an empty entity list and produces no entity match for it, and
\* describe and execute on any entity name of it return the structured
\* EntityNotFound error, never an exception or a ServiceNotFound error.
C18_NullMetadataHasNoEntities ==
    /\ IsDiscover => ListedWithoutEntities
    /\ ((IsDescribe \/ IsExecute) /\ OnUnresolvedService) => StructuredEntityNotFound

\* C18 as amended: the same, for describe calls with a non-empty entity name
\* and for execute calls with a valid operation name; describe with an empty
\* entity name returns the required-arguments error and execute with an
\* invalid operation name returns InvalidOperation, whatever the service.
C18_NullMetadataHasNoEntitiesOnLookup ==
    /\ IsDiscover => ListedWithoutEntities
    /\ (IsDescribe /\ OnUnresolvedService) =>
           IF request.entityName = "" THEN response.kind = "Required"
           ELSE StructuredEntityNotFound
    /\ (IsExecute /\ OnUnresolvedService) =>
           IF OperationKnown THEN StructuredEntityNotFound /\ transportCalls = <<>>
           ELSE response.kind = "InvalidOperation"

\* a read of an entity of API_MISC, whose metadata is null, was refused
C18_Witness ==
    /\ IsExecute
    /\ OnUnresolvedService
    /\ RequestedOperation = "read"
    /\ request.entityName = "SalesOrderHeader"
    /\ StructuredEntityNotFound

-----------------------------------------------------------------------------
(* Properties of the tool-name allocator *)

\* the (operation, serviceId, entityName) triple of the i-th allocate call
TripleOf(i) ==
    <<allocations[i].operation, allocations[i].serviceId, allocations[i].entityName>>

\* C19: within one allocator instance, no two allocate calls with different
\* (operation, serviceId, entityName) triples return the same short name,
\* after any sequence of allocate calls, including calls whose name is
\* returned verbatim because it is at most 64 characters long.
C19_NamesUnique ==
    \A i, j \in 1..Len(allocations) :
        TripleOf(i) # TripleOf(j) => allocations[i].name # allocations[j].name

\* C20: every short name returned by allocate is at most 64 characters long,
\* for every triple and every allocator state, including names that carry a
\* collision suffix.
C20_NamesShort ==
    \A i \in 1..Len(allocations) : Len(allocations[i].name) <= 64

\* the second of two long triples with the same abbreviation got the suffix -1
C20_Witness ==
    /\ Len(allocations) = 2
    /\ TripleOf(1) # TripleOf(2)
    /\ Len(allocations[1].operation \o "-" \o allocations[1].serviceId
               \o "-" \o allocations[1].entityName) > 64
    /\ allocations[1].name = "r-SALESORDER_P-SOHEI"
    /\ allocations[2].name = "r-SALESORDER_P-SOHEI-1"
    /\ usedShortNames = {"r-SALESORDER_P-SOHEI", "r-SALESORDER_P-SOHEI-1"}

\* the long form of the i-th allocate call
LongFormOf(i) ==
    allocations[i].operation \o "--" \o allocations[i].serviceId
        \o "--" \o allocations[i].entityName

\* C21: after every allocate call the returned short name is in the set of
\* used short names and the mapping associates it with the long form
\* operation--serviceId--entityName of that call, on every path of the
\* algorithm, the verbatim name of step 1 included.
C21_ReturnedNameRecorded ==
    \A i \in 1..Len(allocations) :
        /\ allocations[i].name \in usedShortNames
        /\ allocations[i].name \in DOMAIN toolNameMapping
        /\ toolNameMapping[allocations[i].name] = LongFormOf(i)

\* C22: over any sequence of allocate calls the set of used short names and
\* the short-to-long mapping only grow: no entry is removed, and a short name
\* once mapped to a long form is never mapped to a different one.
C22_OnlyGrow ==
    [][/\ usedShortNames \subseteq usedShortNames'
       /\ \A n \in DOMAIN toolNameMapping :
              /\ n \in DOMAIN toolNameMapping'
              /\ toolNameMapping'[n] = toolNameMapping[n]]_vars

\* two names were recorded one after the other and both are still mapped
C22_Witness ==
    /\ Len(allocations) = 3
    /\ allocations[1].registered
    /\ allocations[3].registered
    /\ allocations[1].name # allocations[3].name
    /\ {allocations[1].name, allocations[3].name} \subseteq usedShortNames
    /\ toolNameMapping[allocations[1].name] = LongFormOf(1)
    /\ toolNameMapping[allocations[3].name] = LongFormOf(3)

\* C23: allocate called twice with the same (operation, serviceId,
\* entityName) on a fresh allocator yields the same short name both times.
C23_SameTripleSameName ==
    (Len(allocations) >= 2 /\ TripleOf(1) = TripleOf(2)) =>
        allocations[1].name = allocations[2].name

\* base-k: the candidate, cut so that the whole name has at most 64
\* characters, followed by -k
BaseWithSuffix(base, k) ==
    LET suffix == "-" \o NatToString(k)
        room == 64 - Len(suffix)
    IN  SubSeq(base, 1, IF Len(base) < room THEN Len(base) ELSE room) \o suffix

C28_CheckedNamesDistinct ==
    \A i, j \in 1..Len(allocations) :
        (i # j /\ allocations[i].registered /\ allocations[j].registered) =>
            allocations[i].name # allocations[j].name

\* two calls with the same candidate went through the check, the second
\* after the first had inserted its name
C28_Witness ==
    /\ Len(allocations) = 2
    /\ allocations[1].registered
    /\ allocations[2].registered
    /\ allocations[1].candidate = allocations[2].candidate
    /\ allocations[1].name \in allocations[2].usedBefore
    /\ allocations[1].name # allocations[2].name

\* C30: every allocate call terminates: the suffix loop of step 5 reaches an
\* unused name after finitely many increments, the set of used names being
\* finite.
C30_AllocateTerminates == (suffixLoop.pc = "loop") ~> (suffixLoop.pc = "idle")

\* a call is in the loop after two increments, on a name that is free
C30_Witness ==
    /\ suffixLoop.pc = "loop"
    /\ suffixLoop.counter = 3
    /\ suffixLoop.finalName = BaseWithSuffix(suffixLoop.candidate, 2)
    /\ suffixLoop.finalName \notin usedShortNames

\* the step-wise call returns what generateShortToolName returns
StepwiseAgrees ==
    \A i \in 1..Len(allocations) :
        LET a == allocations[i]
            r == generateShortToolName(a.usedBefore, a.operation, a.serviceId, a.entityName)
        IN  a.name = r.name /\ a.registered = r.registered /\ a.candidate = r.candidate

\* C26: an execute that fails with CapabilityDenied or MissingKey leaves the
\* client's current-token slot as it was before the call.
C26_FailedExecuteKeepsClientToken ==
    [][(/\ request = NoRequest
        /\ request'.tool = "execute-sap-operation"
        /\ response'.kind \in {"CapabilityDenied", "MissingKey"})
           => currentUserToken' = currentUserToken]_vars

\* C29: the dispatcher keeps the session token across calls: after
\* setUserToken(t), an execute with useUserToken = false sends no token and
\* an execute with useUserToken absent or true sends t; only setUserToken
\* changes the dispatcher's session token.
C29_SessionTokenKept ==
    [][/\ userToken' # userToken => SetUserTokenCall
       /\ (request = NoRequest /\ request'.tool = "execute-sap-operation") =>
              \A i \in 1..Len(transportCalls') :
                  transportCalls'[i].token =
                      IF /\ "useUserToken" \in DOMAIN request'.options
                         /\ request'.options["useUserToken"] = JsBoolean(FALSE)
                      THEN Undefined
                      ELSE userToken]_vars

\* with a session token set, an execute with useUserToken = false reached the
\* transport without a token and the session token is still there
C29_Witness ==
    /\ IsExecute
    /\ userToken = JsString("tokA")
    /\ "useUserToken" \in DOMAIN request.options
    /\ request.options["useUserToken"] = JsBoolean(FALSE)
    /\ Len(transportCalls) = 1
    /\ transportCalls[1].token = Undefined

\* the transport call of the execute in hand failed
TransportFailed == IsExecute /\ Len(transportCalls) > 0 /\ response.isError

\* the texts execute returns for the failures of the transport
TransportFailureTexts ==
    { errorText(TransportErrorResult(f), request) : f \in { o \in TransportOutcomes : ~o.ok } }

C24_OwnTokenOrNone ==
    \A call \in sessionCalls :
        call.token \in {JsString(CallerToken[call.caller]), Undefined}

\* both callers have calls waiting for the transport, each sent with its
\* caller's token
C24_Witness ==
    /\ DOMAIN sessions = Callers
    /\ \A c \in Callers : inFlight[c] > 0
    /\ \A c \in Callers : [caller |-> c, token |-> JsString(CallerToken[c])] \in sessionCalls

====
